---- MODULE Spec2Model ----
(***************************************************************************)
(* A model of the single-file virtual file system of VFS-Rust.             *)
(*                                                                         *)
(* The image is modelled region by region: the inode bitmap, the data      *)
(* bitmap, the inode table and the data region.  The data region is an     *)
(* array of blocks of BLOCK_SIZE cells; one cell holds one stored field:   *)
(* a byte of user data, a block pointer, or one of the three fields        *)
(* (inode_id, name, is_active) of a directory entry.  A block is therefore *)
(* untyped, as on disk: what a file wrote there can later be read as       *)
(* directory entries and the other way round.                              *)
(*                                                                         *)
(* The geometry is scaled down (BLOCK_SIZE, DIR_SIZE, PTR_SIZE, NDIRECT):  *)
(* the algorithms only use these through the quotients that are kept       *)
(* (entries per block, pointers per block, direct slots).                  *)
(* Names are integer codes: 1..NNames are ordinary names, DOT and DOTDOT   *)
(* stand for "." and "..".                                                 *)
(***************************************************************************)
EXTENDS Integers, Sequences, FiniteSets, TLC

\* ------------------------------------------------------------ geometry
BLOCK_SIZE == 7     \* cells per block (4096 bytes in the source)
DIR_SIZE == 3       \* cells per directory entry: inode_id, name, is_active
PTR_SIZE == 1       \* cells per block pointer (a u32 in the source)
NDIRECT == 1        \* direct slots per inode (10 in the source)
META_BLOCKS == 2    \* blocks of the image before data_blocks_start
U32 == 16           \* values of a block index: it is cut to a u32 (2^32 in the source)
I64 == 128          \* an i64 is in -I64..(I64 - 1), a u64 in 0..(2 * I64 - 1) (2^63 in the source)
BITS_PER_BYTE == 2  \* bits of one bitmap byte (8 in the source)
CHUNK_BYTES == 2    \* bitmap bytes read at a time (512 in the source)

\* ------------------------------------------------------------ bounds
NInodes == 4        \* bits of the inode bitmap
TotalBlocks == 8    \* bits of the data bitmap (total_blocks of the image)
NNames == 2         \* ordinary names
MaxDepth == 2       \* components of a path
MaxStreams == 2     \* streams alive at a time
MaxClock == 4       \* calls that change the image in a run of Spec
MaxIOClock == 2     \* calls that change the image in a run of SpecIO
MaxByte == 1        \* the bytes of a write buffer are 1..MaxByte
MaxBuf == 2         \* longest buffer handed to one write or read call

PtrsPerBlock == BLOCK_SIZE \div PTR_SIZE
SlotsPerBlock == BLOCK_SIZE \div DIR_SIZE
MaxFileBlocks == NDIRECT + PtrsPerBlock
DataBlocks == TotalBlocks - META_BLOCKS

Names == 1..NNames
DOT == NNames + 1
DOTDOT == NNames + 2

Min2(a, b) == IF a < b THEN a ELSE b
Max2(a, b) == IF a > b THEN a ELSE b

\* ------------------------------------------------------------ records
ZeroInode ==
    [inode_type |-> 0, is_valid |-> 0, size |-> 0, created_at |-> 0,
     modified_at |-> 0, direct_blocks |-> [i \in 0..(NDIRECT - 1) |-> 0],
     indirect_blocks |-> 0]

NewInode(type, now) ==
    [inode_type |-> type, is_valid |-> 1, size |-> 0, created_at |-> now,
     modified_at |-> now, direct_blocks |-> [i \in 0..(NDIRECT - 1) |-> 0],
     indirect_blocks |-> 0]

ZeroBlock == [i \in 0..(BLOCK_SIZE - 1) |-> 0]

\* DirEntry::to_bytes / from_bytes: the fields in their on-disk order.
EntryToCells(e) == <<e.inode_id, e.name, e.is_active>>
EntryFromCells(c) == [inode_id |-> c[1], name |-> c[2], is_active |-> c[3]]

\* The image right after set_len: every region zero, the host file holding
\* DataBlocks blocks of data region.  dirty: the host file has taken a write that
\* no sync_all has followed.
BlankDisk ==
    [ibm |-> [i \in 0..(NInodes - 1) |-> FALSE],
     dbm |-> [b \in 0..(TotalBlocks - 1) |-> FALSE],
     itab |-> [i \in 0..(NInodes - 1) |-> ZeroInode],
     data |-> [b \in 0..(TotalBlocks - 1) |-> ZeroBlock],
     len |-> DataBlocks * BLOCK_SIZE,
     dirty |-> TRUE]

\* ------------------------------------------------------------ raw I/O
\* read_exact of n cells at (block, offset): fails past the end of the host file.
CanRead(d, blk, off, n) ==
    /\ blk \in 0..(TotalBlocks - 1)
    /\ blk * BLOCK_SIZE + off + n <= d.len

ReadCells(d, blk, off, n) == [i \in 1..n |-> d.data[blk][off + i - 1]]

\* write_all of cells at (block, offset): a write past the end extends the host file.
WriteCells(d, blk, off, cells) ==
    [d EXCEPT !.data[blk] =
                 [i \in 0..(BLOCK_SIZE - 1) |->
                     IF i >= off /\ i < off + Len(cells) THEN cells[i - off + 1] ELSE @[i]],
              !.len = Max2(@, blk * BLOCK_SIZE + off + Len(cells)),
              !.dirty = TRUE]

GetInode(d, id) == IF id \in 0..(NInodes - 1) THEN d.itab[id] ELSE ZeroInode
SaveInode(d, id, inode) ==
    IF id \in 0..(NInodes - 1) THEN [d EXCEPT !.itab[id] = inode, !.dirty = TRUE] ELSE d

\* The inode bitmap is followed on disk by the data bitmap: a bit index past
\* the first region addresses the second.
IsInodeAllocated(d, id) ==
    IF id < NInodes THEN d.ibm[id]
    ELSE IF id - NInodes < TotalBlocks THEN d.dbm[id - NInodes] ELSE FALSE

\* A deallocation that also clears the record of the inode (not the program's).
DeallocateAndClear(d, id) ==
    [d EXCEPT !.ibm[id] = FALSE, !.itab[id] = ZeroInode, !.dirty = TRUE]

DeallocateInode(d, id) == [d EXCEPT !.ibm[id] = FALSE, !.dirty = TRUE]

\* File::sync_all on the host file.
SyncAll(d) == [d EXCEPT !.dirty = FALSE]

\* ------------------------------------------------------------ bitmap allocator
\* A region is an array of bits held in bytes of BITS_PER_BYTE bits; the image
\* sizes modelled have whole bytes of bitmap, a bit outside the region reads as set.
Bit(bm, i) == IF i \in DOMAIN bm THEN bm[i] ELSE TRUE

RegionBytes(bm) == (Cardinality(DOMAIN bm) + BITS_PER_BYTE - 1) \div BITS_PER_BYTE

ByteIsFF(bm, base) == \A k \in 0..(BITS_PER_BYTE - 1) : Bit(bm, base + k)

\* for bit_idx in 0..8: the first clear bit of the byte, least significant first.
RECURSIVE ScanBits(_, _, _)
ScanBits(bm, base, bit_idx) ==
    IF bit_idx >= BITS_PER_BYTE THEN -1
    ELSE IF ~Bit(bm, base + bit_idx) THEN base + bit_idx
    ELSE ScanBits(bm, base, bit_idx + 1)

\* for (byte_idx, byte) in buffer[..to_read]: the first byte that is not 0xFF.
RECURSIVE ScanBytes(_, _, _, _)
ScanBytes(bm, chunk_idx, byte_idx, to_read) ==
    IF byte_idx >= to_read THEN -1
    ELSE LET base == chunk_idx * CHUNK_BYTES * BITS_PER_BYTE + byte_idx * BITS_PER_BYTE IN
         IF ~ByteIsFF(bm, base) THEN ScanBits(bm, base, 0)
         ELSE ScanBytes(bm, chunk_idx, byte_idx + 1, to_read)

\* for chunk_idx in 0..(total_bytes / 512 + 1), stopping at an empty chunk.
RECURSIVE ScanChunks(_, _)
ScanChunks(bm, chunk_idx) ==
    LET total_bytes == RegionBytes(bm)
        rest == total_bytes - chunk_idx * CHUNK_BYTES
        to_read == IF rest < CHUNK_BYTES THEN rest ELSE CHUNK_BYTES
    IN  IF chunk_idx >= total_bytes \div CHUNK_BYTES + 1 \/ to_read = 0 THEN -1
        ELSE LET found == ScanBytes(bm, chunk_idx, 0, to_read) IN
             IF found >= 0 THEN found ELSE ScanChunks(bm, chunk_idx + 1)

\* The scan taken from the top of the region (not the program's order).
AllocateBitHighest(bm) ==
    LET free == {i \in DOMAIN bm : ~bm[i]} IN
    IF free = {} THEN [ok |-> FALSE, id |-> 0, bm |-> bm]
    ELSE LET id == CHOOSE x \in free : \A y \in free : y <= x IN
         [ok |-> TRUE, id |-> id, bm |-> [bm EXCEPT ![id] = TRUE]]

AllocateBit(bm) ==
    LET id == ScanChunks(bm, 0) IN
    IF id < 0 THEN [ok |-> FALSE, id |-> 0, bm |-> bm]
    ELSE [ok |-> TRUE, id |-> id, bm |-> [bm EXCEPT ![id] = TRUE]]

AllocateInode(d) ==
    LET a == AllocateBit(d.ibm) IN
    [ok |-> a.ok, id |-> a.id,
     disk |-> IF a.ok THEN [d EXCEPT !.ibm = a.bm, !.dirty = TRUE] ELSE d]

AllocateDataBlock(d) ==
    LET a == AllocateBit(d.dbm) IN
    [ok |-> a.ok, id |-> a.id,
     disk |-> IF a.ok THEN [d EXCEPT !.dbm = a.bm, !.dirty = TRUE] ELSE d]

\* VfsFile's own copy of the scan over the data bitmap.
FileAllocateDataBlock(d) ==
    LET a == AllocateBit(d.dbm) IN
    [ok |-> a.ok, id |-> a.id,
     disk |-> IF a.ok THEN [d EXCEPT !.dbm = a.bm, !.dirty = TRUE] ELSE d]

FreeDataBit(d, idx) ==
    IF idx < TotalBlocks THEN [d EXCEPT !.dbm[idx] = FALSE, !.dirty = TRUE] ELSE d

FreeInodeBit(d, idx) ==
    IF idx < NInodes THEN [d EXCEPT !.ibm[idx] = FALSE, !.dirty = TRUE]
    ELSE IF idx - NInodes < TotalBlocks
         THEN [d EXCEPT !.dbm[idx - NInodes] = FALSE, !.dirty = TRUE] ELSE d

\* ------------------------------------------------------------ block map
\* Results carry the disk after the call and, in trace, the disk after each
\* single write the call made (the states a crash can leave behind).
MapOk(id, d, tr) == [ok |-> TRUE, err |-> "None", id |-> id, disk |-> d, trace |-> tr]
MapErr(e, d, tr) == [ok |-> FALSE, err |-> e, id |-> 0, disk |-> d, trace |-> tr]

\* VfsFile::allocate_indirect_or_direct_blocks, in three steps; a is the result of
\* the allocate_data_block call a step makes when the slot it looks at is empty.
\* Direct slot: an empty slot takes block a.id and the inode is saved.
FileMapDirect(d, inode_id, block_index, a) ==
    LET inode == GetInode(d, inode_id)
        direct_block == inode.direct_blocks[block_index]
        d2 == SaveInode(a.disk, inode_id, [inode EXCEPT !.direct_blocks[block_index] = a.id])
    IN IF direct_block # 0 THEN MapOk(direct_block, d, <<>>)
       ELSE IF ~a.ok THEN MapErr("Other", d, <<>>)
       ELSE MapOk(a.id, d2, <<a.disk, d2>>)

\* Pointer slot k of pointer block ib: an empty slot takes block b.id.
FileMapPointer(d2, ib, k, tr1, b) ==
    LET p == d2.data[ib][k * PTR_SIZE]
        d3 == WriteCells(b.disk, ib, k * PTR_SIZE, <<b.id>>)
    IN IF ~CanRead(d2, ib, k * PTR_SIZE, PTR_SIZE) THEN MapErr("IO", d2, tr1)
       ELSE IF p # 0 THEN MapOk(p, d2, tr1)
       ELSE IF ~b.ok THEN MapErr("Other", d2, tr1)
       ELSE MapOk(b.id, d3, tr1 \o <<b.disk, d3>>)

\* No pointer block yet: block a.id becomes the pointer block, saved in the inode
\* and zeroed; then the pointer slot.
FileMapIndirect(d, inode_id, k, a) ==
    LET inode == GetInode(d, inode_id)
        fresh == inode.indirect_blocks = 0
        ib == IF fresh THEN a.id ELSE inode.indirect_blocks
        d1 == IF fresh
              THEN SaveInode(a.disk, inode_id, [inode EXCEPT !.indirect_blocks = a.id])
              ELSE d
        d2 == IF fresh THEN WriteCells(d1, ib, 0, [i \in 1..BLOCK_SIZE |-> 0]) ELSE d
        tr1 == IF fresh THEN <<a.disk, d1, d2>> ELSE <<>>
    IN IF fresh /\ ~a.ok THEN MapErr("Other", d, <<>>)
       ELSE FileMapPointer(d2, ib, k, tr1, FileAllocateDataBlock(d2))

FileAllocateIndirectOrDirectBlocks(d, inode_id, block_index) ==
    IF block_index < NDIRECT
    THEN FileMapDirect(d, inode_id, block_index, FileAllocateDataBlock(d))
    ELSE IF block_index - NDIRECT >= PtrsPerBlock THEN MapErr("FileTooLarge", d, <<>>)
    ELSE FileMapIndirect(d, inode_id, block_index - NDIRECT, FileAllocateDataBlock(d))

\* Vfs::allocate_indirect_or_direct_blocks: the same statements over Vfs's allocator.
MapDirect(d, inode_id, block_index, a) ==
    LET inode == GetInode(d, inode_id)
        direct_block == inode.direct_blocks[block_index]
        d2 == SaveInode(a.disk, inode_id, [inode EXCEPT !.direct_blocks[block_index] = a.id])
    IN IF direct_block # 0 THEN MapOk(direct_block, d, <<>>)
       ELSE IF ~a.ok THEN MapErr("Other", d, <<>>)
       ELSE MapOk(a.id, d2, <<a.disk, d2>>)

MapPointer(d2, ib, k, tr1, b) ==
    LET p == d2.data[ib][k * PTR_SIZE]
        d3 == WriteCells(b.disk, ib, k * PTR_SIZE, <<b.id>>)
    IN IF ~CanRead(d2, ib, k * PTR_SIZE, PTR_SIZE) THEN MapErr("IO", d2, tr1)
       ELSE IF p # 0 THEN MapOk(p, d2, tr1)
       ELSE IF ~b.ok THEN MapErr("Other", d2, tr1)
       ELSE MapOk(b.id, d3, tr1 \o <<b.disk, d3>>)

MapIndirect(d, inode_id, k, a) ==
    LET inode == GetInode(d, inode_id)
        fresh == inode.indirect_blocks = 0
        ib == IF fresh THEN a.id ELSE inode.indirect_blocks
        d1 == IF fresh
              THEN SaveInode(a.disk, inode_id, [inode EXCEPT !.indirect_blocks = a.id])
              ELSE d
        d2 == IF fresh THEN WriteCells(d1, ib, 0, [i \in 1..BLOCK_SIZE |-> 0]) ELSE d
        tr1 == IF fresh THEN <<a.disk, d1, d2>> ELSE <<>>
    IN IF fresh /\ ~a.ok THEN MapErr("Other", d, <<>>)
       ELSE MapPointer(d2, ib, k, tr1, AllocateDataBlock(d2))

AllocateIndirectOrDirectBlocks(d, inode_id, block_index) ==
    IF block_index < NDIRECT
    THEN MapDirect(d, inode_id, block_index, AllocateDataBlock(d))
    ELSE IF block_index - NDIRECT >= PtrsPerBlock THEN MapErr("FileTooLarge", d, <<>>)
    ELSE MapIndirect(d, inode_id, block_index - NDIRECT, AllocateDataBlock(d))

\* just_read (both copies): the block of a logical index, none when the slot or
\* the indirect chain is zero. The pointer is read at a byte position of the data
\* region, which lies past the pointer block when the index is past the limit.
JustRead(d, inode, block_index) ==
    IF block_index < NDIRECT THEN
        LET id == inode.direct_blocks[block_index] IN
        [ok |-> TRUE, some |-> id # 0, id |-> id]
    ELSE IF inode.indirect_blocks = 0 THEN [ok |-> TRUE, some |-> FALSE, id |-> 0]
    ELSE
        LET pointer_pos == inode.indirect_blocks * BLOCK_SIZE + (block_index - NDIRECT) * PTR_SIZE
            blk == pointer_pos \div BLOCK_SIZE
            off == pointer_pos % BLOCK_SIZE
        IN
        IF ~CanRead(d, blk, off, PTR_SIZE)
        THEN [ok |-> FALSE, some |-> FALSE, id |-> 0]
        ELSE LET id == d.data[blk][off] IN
             [ok |-> TRUE, some |-> id # 0, id |-> id]

\* ------------------------------------------------------------ directory layer
Res(ok, err, d, val) == [ok |-> ok, err |-> err, disk |-> d, val |-> val]

ReadEntry(d, blk, i) == EntryFromCells(ReadCells(d, blk, i * DIR_SIZE, DIR_SIZE))

\* find_in_dir: the scan from (block_index, i) on; the first live entry of that
\* name decides, also when its inode is not allocated.
RECURSIVE FindScan(_, _, _, _, _)
FindScan(d, dir_inode, name, block_index, i) ==
    IF block_index >= MaxFileBlocks THEN Res(FALSE, "NotFound", d, 0)
    ELSE
        LET jr == JustRead(d, dir_inode, block_index) IN
        IF ~jr.ok THEN Res(FALSE, "IO", d, 0)
        ELSE IF ~jr.some THEN Res(FALSE, "NotFound", d, 0)
        ELSE IF i >= SlotsPerBlock THEN FindScan(d, dir_inode, name, block_index + 1, 0)
        ELSE IF ~CanRead(d, jr.id, i * DIR_SIZE, DIR_SIZE) THEN Res(FALSE, "IO", d, 0)
        ELSE
            LET entry == ReadEntry(d, jr.id, i) IN
            IF entry.is_active = 1 /\ entry.name = name THEN
                IF ~IsInodeAllocated(d, entry.inode_id)
                THEN Res(FALSE, "NotFound", d, entry.inode_id)
                ELSE Res(TRUE, "None", d, entry.inode_id)
            ELSE FindScan(d, dir_inode, name, block_index, i + 1)

FindInDir(d, dir_id, name) == FindScan(d, GetInode(d, dir_id), name, 0, 0)

\* find_inode_by_path: a path is the sequence of its non-empty components.
RECURSIVE FindWalk(_, _, _)
\* r is what find_in_dir returned for the first component.
FindNext(d, parts, r) == IF ~r.ok THEN r ELSE FindWalk(d, r.val, Tail(parts))

FindWalk(d, current_id, parts) ==
    IF parts = <<>> THEN Res(TRUE, "None", d, current_id)
    ELSE FindNext(d, parts, FindInDir(d, current_id, Head(parts)))

FindInodeByPath(d, path) == FindWalk(d, 0, path)

\* The end offset of a slot counted as if the slots of a directory were packed
\* one after the other (not the program's offset: a block ends in unused bytes).
EntryEndPosPacked(block_index, i) == (block_index * SlotsPerBlock + i + 1) * DIR_SIZE

\* entry_end_pos: the byte offset one past slot i of logical block block_index.
EntryEndPos(block_index, i) == block_index * BLOCK_SIZE + (i + 1) * DIR_SIZE

\* add_entry_to_parent: one allocating block-map call per logical block, then the
\* slots of that block; the first slot whose is_active is 0 takes the entry.
RECURSIVE AddScan(_, _, _, _, _, _)
RECURSIVE AddSlots(_, _, _, _, _, _, _, _)
RECURSIVE AddMapped(_, _, _, _, _, _)
AddSlots(d, parent_id, name, child_id, now, block_index, physical_id, i) ==
    IF i >= SlotsPerBlock THEN AddScan(d, parent_id, name, child_id, now, block_index + 1)
    ELSE IF ~CanRead(d, physical_id, i * DIR_SIZE, DIR_SIZE) THEN Res(FALSE, "IO", d, 0)
    ELSE IF ReadEntry(d, physical_id, i).is_active = 0 THEN
        LET entry == [inode_id |-> child_id, name |-> name, is_active |-> 1]
            d1 == WriteCells(d, physical_id, i * DIR_SIZE, EntryToCells(entry))
            parent_inode == GetInode(d1, parent_id)
            entry_end_pos == EntryEndPos(block_index, i)
            saved == [parent_inode EXCEPT
                         !.modified_at = now,
                         !.size = IF entry_end_pos > @ THEN entry_end_pos ELSE @]
        IN Res(TRUE, "None", SaveInode(d1, parent_id, saved), 0)
    ELSE AddSlots(d, parent_id, name, child_id, now, block_index, physical_id, i + 1)

\* m is what the allocating block map returned for this logical block.
AddMapped(parent_id, name, child_id, now, block_index, m) ==
    IF ~m.ok THEN Res(FALSE, m.err, m.disk, 0)
    ELSE AddSlots(m.disk, parent_id, name, child_id, now, block_index, m.id, 0)

AddScan(d, parent_id, name, child_id, now, block_index) ==
    IF block_index >= MaxFileBlocks THEN Res(FALSE, "Other", d, 0)
    ELSE AddMapped(parent_id, name, child_id, now, block_index,
                   AllocateIndirectOrDirectBlocks(d, parent_id, block_index))

AddEntryToParent(d, parent_id, name, child_id, now) ==
    AddScan(d, parent_id, name, child_id, now, 0)

\* set_entry_active_status: the first live entry of that name gets the status.
RECURSIVE SetScan(_, _, _, _, _, _)
SetScan(d, dir_inode, name, status, block_index, i) ==
    IF block_index >= MaxFileBlocks THEN Res(FALSE, "NotFound", d, 0)
    ELSE
        LET jr == JustRead(d, dir_inode, block_index) IN
        IF ~jr.ok THEN Res(FALSE, "IO", d, 0)
        ELSE IF ~jr.some THEN Res(FALSE, "NotFound", d, 0)
        ELSE IF i >= SlotsPerBlock THEN SetScan(d, dir_inode, name, status, block_index + 1, 0)
        ELSE IF ~CanRead(d, jr.id, i * DIR_SIZE, DIR_SIZE) THEN Res(FALSE, "IO", d, 0)
        ELSE
            LET entry == ReadEntry(d, jr.id, i) IN
            IF entry.is_active = 1 /\ entry.name = name THEN
                Res(TRUE, "None",
                    WriteCells(d, jr.id, i * DIR_SIZE,
                               EntryToCells([entry EXCEPT !.is_active = status])), 0)
            ELSE SetScan(d, dir_inode, name, status, block_index, i + 1)

SetEntryActiveStatus(d, dir_id, name, status) ==
    SetScan(d, GetInode(d, dir_id), name, status, 0, 0)

\* read_dir: the names of the live entries, in on-disk order.
RECURSIVE ListScan(_, _, _, _, _)
ListScan(d, dir_inode, block_index, i, entries) ==
    IF block_index >= MaxFileBlocks THEN Res(TRUE, "None", d, entries)
    ELSE
        LET jr == JustRead(d, dir_inode, block_index) IN
        IF ~jr.ok THEN Res(FALSE, "IO", d, <<>>)
        ELSE IF ~jr.some THEN Res(TRUE, "None", d, entries)
        ELSE IF i >= SlotsPerBlock THEN ListScan(d, dir_inode, block_index + 1, 0, entries)
        ELSE IF ~CanRead(d, jr.id, i * DIR_SIZE, DIR_SIZE) THEN Res(FALSE, "IO", d, <<>>)
        ELSE
            LET entry == ReadEntry(d, jr.id, i) IN
            ListScan(d, dir_inode, block_index, i + 1,
                     IF entry.is_active = 1 THEN Append(entries, entry.name) ELSE entries)

ReadDir(d, path) ==
    LET f == FindInodeByPath(d, path) IN
    IF ~f.ok THEN Res(FALSE, f.err, d, <<>>)
    ELSE LET dir_inode == GetInode(d, f.val) IN
         IF dir_inode.inode_type # 1 THEN Res(FALSE, "Other", d, <<>>)
         ELSE ListScan(d, dir_inode, 0, 0, <<>>)

\* ------------------------------------------------------------ facade
ParentPath(path) == SubSeq(path, 1, Len(path) - 1)
LastName(path) == path[Len(path)]

\* The parent of a path: inode 0 when the path has one component.
ResolveParent(d, path) ==
    IF ParentPath(path) = <<>> THEN Res(TRUE, "None", d, 0)
    ELSE FindInodeByPath(d, ParentPath(path))

\* The ? after a call: an error ends the function with the image as it is.
\* A further add_entry_to_parent after the call that returned e.
AddEntryAfter(e, parent_id, name, child_id, now) ==
    IF ~e.ok THEN e ELSE AddEntryToParent(e.disk, parent_id, name, child_id, now)

\* sync_all()? after the call that returned e.
Synced(e) == IF ~e.ok THEN e ELSE Res(TRUE, e.err, SyncAll(e.disk), e.val)

\* The function returns val after the call that returned e.
Returning(e, val) ==
    IF ~e.ok THEN Res(FALSE, e.err, e.disk, 0) ELSE Res(TRUE, "None", e.disk, val)

\* create_file, from allocate_inode (a) on: val is the inode of the returned stream.
CreateFileAs(path, now, parent_id, d, a) ==
    IF ~a.ok THEN Res(FALSE, "Other", d, 0)
    ELSE Returning(Synced(AddEntryToParent(SaveInode(a.disk, a.id, NewInode(0, now)),
                                           parent_id, LastName(path), a.id, now)), a.id)

CreateFileIn(d, path, now, p) ==
    IF ~p.ok THEN Res(FALSE, p.err, d, 0)
    ELSE CreateFileAs(path, now, p.val, d, AllocateInode(d))

CreateFile(d, path, now) == CreateFileIn(d, path, now, ResolveParent(d, path))

\* create_dir, from allocate_inode (a) on: the parent's entry, then "." and "..".
CreateDirAs(path, now, parent_id, d, a) ==
    IF ~a.ok THEN Res(FALSE, "Other", d, 0)
    ELSE Returning(
            AddEntryAfter(
                AddEntryAfter(
                    AddEntryToParent(SaveInode(a.disk, a.id, NewInode(1, now)),
                                     parent_id, LastName(path), a.id, now),
                    a.id, DOT, a.id, now),
                a.id, DOTDOT, parent_id, now),
            a.id)

CreateDirIn(d, path, now, p) ==
    IF ~p.ok THEN Res(FALSE, p.err, d, 0)
    ELSE CreateDirAs(path, now, p.val, d, AllocateInode(d))

CreateDir(d, path, now) == CreateDirIn(d, path, now, ResolveParent(d, path))

\* remove: the bits of the non-zero pointers read from the pointer block, in order.
RECURSIVE FreePointers(_, _, _)
FreePointers(d, cells, k) ==
    IF k > Len(cells) THEN d
    ELSE FreePointers(IF cells[k] # 0 THEN FreeDataBit(d, cells[k]) ELSE d, cells, k + 1)

RECURSIVE FreeDirect(_, _, _)
FreeDirect(d, inode, i) ==
    IF i >= NDIRECT THEN d
    ELSE FreeDirect(IF inode.direct_blocks[i] # 0 THEN FreeDataBit(d, inode.direct_blocks[i]) ELSE d,
                    inode, i + 1)

\* remove, once the target is loaded: d1 is the image after the direct blocks
\* were released.
RemoveInode(d1, path, parent_id, inode_id, ib) ==
    IF ib # 0 /\ ~CanRead(d1, ib, 0, BLOCK_SIZE) THEN Res(FALSE, "IO", d1, 0)
    ELSE
        LET d2 == IF ib # 0
                  THEN FreeDataBit(FreePointers(d1, ReadCells(d1, ib, 0, BLOCK_SIZE), 1), ib)
                  ELSE d1
        IN Returning(SetEntryActiveStatus(FreeInodeBit(d2, inode_id), parent_id,
                                          LastName(path), 0), inode_id)

RemoveFound(d, path, parent_id, f) ==
    IF ~f.ok THEN Res(FALSE, f.err, d, 0)
    ELSE RemoveInode(FreeDirect(d, GetInode(d, f.val), 0), path, parent_id, f.val,
                     GetInode(d, f.val).indirect_blocks)

RemoveIn(d, path, p) ==
    IF ~p.ok THEN Res(FALSE, p.err, d, 0)
    ELSE RemoveFound(d, path, p.val, FindInDir(d, p.val, LastName(path)))

Remove(d, path) == RemoveIn(d, path, ResolveParent(d, path))

OpenFile(d, path) == FindInodeByPath(d, path)

Stat(d, path) ==
    LET f == FindInodeByPath(d, path) IN
    IF ~f.ok THEN Res(FALSE, f.err, d, ZeroInode) ELSE Res(TRUE, "None", d, GetInode(d, f.val))

\* recover_corrupted_inodes: inode 0 is not looked at.
RECURSIVE RecoverFrom(_, _)
RecoverFrom(d, inode_id) ==
    IF inode_id >= NInodes THEN d
    ELSE IF ~IsInodeAllocated(d, inode_id) THEN RecoverFrom(d, inode_id + 1)
    ELSE IF GetInode(d, inode_id).is_valid = 0
         THEN RecoverFrom(DeallocateInode(d, inode_id), inode_id + 1)
    ELSE RecoverFrom(d, inode_id + 1)

\* A recovery pass that begins one inode too late.
RecoverFromSecond(d) == RecoverFrom(d, 2)

RecoverCorruptedInodes(d) == RecoverFrom(d, 1)

\* Vfs::create: format, then the two entries of the root.
\* The image create has written when it adds the root's two entries: zeroed
\* metadata, the root inode, bit 0 of the inode bitmap, all of it synced.
FormatRoot(now) ==
    SyncAll([SaveInode(BlankDisk, 0, NewInode(1, now)) EXCEPT !.ibm[0] = TRUE])

\* The image after vfs.add_entry_to_parent(0, ".", 0), the first of the two.
FormatDot(now) == AddEntryToParent(FormatRoot(now), 0, DOT, 0, now)

Format(now) == AddEntryAfter(FormatDot(now), 0, DOTDOT, 0, now).disk

\* ------------------------------------------------------------ file stream
\* (self.position / BLOCK_SIZE as u64) as u32: the cast keeps the low bits.
BlockIndex(position) == (position \div BLOCK_SIZE) % U32

Stream(inode_id, position) == [inode_id |-> inode_id, position |-> position]

WRes(ok, err, n, d, s, tr) ==
    [ok |-> ok, err |-> err, n |-> n, disk |-> d, stream |-> s, trace |-> tr]

\* A write that puts the bytes in place but does not commit the new size.
FileWriteKeepsSize(s, buf, now, tr1, m) ==
    IF ~m.ok THEN WRes(FALSE, m.err, 0, m.disk, s, tr1 \o m.trace)
    ELSE
        LET offset == s.position % BLOCK_SIZE
            to_write == Min2(BLOCK_SIZE - offset, Len(buf))
            d2 == SyncAll(WriteCells(m.disk, m.id, offset, SubSeq(buf, 1, to_write)))
            d3 == SyncAll(SaveInode(d2, s.inode_id,
                      [GetInode(d2, s.inode_id) EXCEPT !.modified_at = now, !.is_valid = 1]))
        IN WRes(TRUE, "None", to_write, d3, Stream(s.inode_id, s.position + to_write),
                tr1 \o m.trace \o <<d2, d3>>)

\* write, from the block map on: d1 is the image with the inode marked in flight,
\* m what the block map returned.
FileWriteMapped(s, buf, now, tr1, m) ==
    IF ~m.ok THEN WRes(FALSE, m.err, 0, m.disk, s, tr1 \o m.trace)
    ELSE
        LET offset == s.position % BLOCK_SIZE
            to_write == Min2(BLOCK_SIZE - offset, Len(buf))
            d2 == SyncAll(WriteCells(m.disk, m.id, offset, SubSeq(buf, 1, to_write)))
            position == s.position + to_write
            inode2 == GetInode(d2, s.inode_id)
            d3 == SyncAll(SaveInode(d2, s.inode_id,
                      [inode2 EXCEPT !.size = IF position > @ THEN position ELSE @,
                                     !.modified_at = now,
                                     !.is_valid = 1]))
        IN WRes(TRUE, "None", to_write, d3, Stream(s.inode_id, position),
                tr1 \o m.trace \o <<d2, d3>>)

\* A write that does not mark the inode in flight before it touches the image.
FileWriteUnbracketed(d, s, buf, now) ==
    IF buf = <<>> THEN WRes(TRUE, "None", 0, d, s, <<>>)
    ELSE FileWriteMapped(s, buf, now, <<>>,
             FileAllocateIndirectOrDirectBlocks(d, s.inode_id, BlockIndex(s.position)))

\* write: one call; trace lists the disk after each write the call made.
FileWrite(d, s, buf, now) ==
    IF buf = <<>> THEN WRes(TRUE, "None", 0, d, s, <<>>)
    ELSE
        LET inode == GetInode(d, s.inode_id)
            d1 == IF inode.is_valid = 1
                  THEN SyncAll(SaveInode(d, s.inode_id, [inode EXCEPT !.is_valid = 0])) ELSE d
            tr1 == IF inode.is_valid = 1 THEN <<d1>> ELSE <<>>
        IN FileWriteMapped(s, buf, now, tr1,
               FileAllocateIndirectOrDirectBlocks(d1, s.inode_id, BlockIndex(s.position)))

RRes(ok, err, bytes, s) == [ok |-> ok, err |-> err, bytes |-> bytes, stream |-> s]

\* read into a buffer of n bytes: the bytes delivered and the stream after the call.
FileRead(d, s, n) ==
    IF n = 0 THEN RRes(TRUE, "None", <<>>, s)
    ELSE
        LET inode == GetInode(d, s.inode_id) IN
        IF s.position >= inode.size THEN RRes(TRUE, "None", <<>>, s)
        ELSE
            LET block_idx == BlockIndex(s.position)
                offset == s.position % BLOCK_SIZE
                jr == JustRead(d, inode, block_idx)
            IN
            IF ~jr.ok THEN RRes(FALSE, "IO", <<>>, s)
            ELSE IF ~jr.some THEN
                LET to_read == Min2(BLOCK_SIZE - offset, n)
                    final_read == Min2(to_read, inode.size - s.position)
                IN RRes(TRUE, "None", [i \in 1..final_read |-> 0],
                        Stream(s.inode_id, s.position + final_read))
            ELSE
                LET to_read == Min2(Min2(BLOCK_SIZE - offset, inode.size - s.position), n) IN
                IF ~CanRead(d, jr.id, offset, to_read) THEN RRes(FALSE, "IO", <<>>, s)
                ELSE RRes(TRUE, "None", ReadCells(d, jr.id, offset, to_read),
                          Stream(s.inode_id, s.position + to_read))

\* A lookup that maps an absent block, as write does (not the lookup of read).
FileReadLookupAllocating(d, inode_id, block_index) ==
    FileAllocateIndirectOrDirectBlocks(d, inode_id, block_index)

\* The block lookup of read, with the image it leaves: just_read writes nothing.
FileReadLookup(d, inode_id, block_index) ==
    LET jr == JustRead(d, GetInode(d, inode_id), block_index)
    IN IF jr.ok THEN MapOk(jr.id, d, <<>>) ELSE MapErr("IO", d, <<>>)

\* The image after a read call into a buffer of n bytes through stream s.
FileReadImage(d, s, n) ==
    IF n = 0 \/ s.position >= GetInode(d, s.inode_id).size THEN d
    ELSE FileReadLookup(d, s.inode_id, BlockIndex(s.position)).disk

\* n as i64, for a u64 n: the cast keeps the bits.
AsI64(n) == IF n >= I64 THEN n - 2 * I64 ELSE n
\* An i64 sum that left the range, as a build without overflow checks leaves it.
WrapI64(x) == ((x + I64) % (2 * I64)) - I64
Overflows(x) == x < -I64 \/ x > I64 - 1

\* The sum seek computes, before it is cut to an i64.
SeekSum(d, s, whence, n) ==
    CASE whence = "Start" -> AsI64(n)
      [] whence = "Current" -> AsI64(s.position) + n
      [] OTHER -> AsI64(GetInode(d, s.inode_id).size) + n

\* A seek whose offset from the end is taken from the stream's position.
FileSeekFromPosition(d, s, whence, n) ==
    LET new_position == WrapI64(SeekSum(d, s, IF whence = "End" THEN "Current" ELSE whence, n))
    IN IF new_position < 0 THEN RRes(FALSE, "InvalidInput", <<>>, s)
       ELSE RRes(TRUE, "None", <<>>, Stream(s.inode_id, new_position))

\* seek: whence is "Start", "Current" or "End"; n is a u64 for "Start", an i64 else.
FileSeek(d, s, whence, n) ==
    LET new_position == WrapI64(SeekSum(d, s, whence, n))
    IN IF new_position < 0 THEN RRes(FALSE, "InvalidInput", <<>>, s)
       ELSE RRes(TRUE, "None", <<>>, Stream(s.inode_id, new_position))

\* What a seek call can do: where the i64 sum overflows, a build with overflow
\* checks panics and a build without them goes on with the wrapped sum.
FileSeekOutcomes(d, s, whence, n) ==
    {FileSeek(d, s, whence, n)}
        \cup (IF Overflows(SeekSum(d, s, whence, n))
              THEN {RRes(FALSE, "Panic", <<>>, s)} ELSE {})


\* ------------------------------------------------------------ callers' loops
\* std::io::Write::write_all over FileWrite: write until the buffer is empty;
\* a call that accepts nothing is the error WriteZero.
RECURSIVE WriteAll(_, _, _, _)
WriteAllAfter(buf, now, w) ==
    IF ~w.ok THEN [ok |-> FALSE, err |-> w.err, disk |-> w.disk, stream |-> w.stream]
    ELSE IF w.n = 0 THEN [ok |-> FALSE, err |-> "WriteZero", disk |-> w.disk, stream |-> w.stream]
    ELSE WriteAll(w.disk, w.stream, SubSeq(buf, w.n + 1, Len(buf)), now)

WriteAll(d, s, buf, now) ==
    IF buf = <<>> THEN [ok |-> TRUE, err |-> "None", disk |-> d, stream |-> s]
    ELSE WriteAllAfter(buf, now, FileWrite(d, s, buf, now))

\* std::io::Read::read_to_end over FileRead: read until a call delivers nothing.
RECURSIVE ReadLoop(_, _, _)
ReadLoopAfter(d, acc, r) ==
    IF ~r.ok THEN [ok |-> FALSE, bytes |-> acc]
    ELSE IF r.bytes = <<>> THEN [ok |-> TRUE, bytes |-> acc]
    ELSE ReadLoop(d, r.stream, acc \o r.bytes)

ReadLoop(d, s, acc) == ReadLoopAfter(d, acc, FileRead(d, s, BLOCK_SIZE))

ReadToEnd(d, s) == ReadLoop(d, s, <<>>)

\* ------------------------------------------------------------ state machine
VARIABLES
    disk,       \* the image
    up,         \* a Vfs owns the image (between create/open and drop)
    streams,    \* the VfsFile values alive, by slot
    now,        \* the clock: it advances with every call that changes the image
    last        \* the last call that may change the image, and what it returned

vars == <<disk, up, streams, now, last>>

NoStream == [open |-> FALSE, inode_id |-> 0, position |-> 0]
Slot(s) == [open |-> TRUE, inode_id |-> s.inode_id, position |-> s.position]
Slots == 1..MaxStreams

PathNames == Names \cup {DOT, DOTDOT}
SeqsUpTo(S, n) == UNION {[1..k -> S] : k \in 0..n}
AllPaths == SeqsUpTo(PathNames, MaxDepth)
RemovePaths == {p \in AllPaths : Len(p) >= 1}
CreatePaths == {p \in RemovePaths : LastName(p) \in Names}
\* The paths of the stream-centred specification: the root and its files.
FilePaths == {p \in CreatePaths : Len(p) = 1}
StreamPaths == FilePaths \cup {<<>>}
\* Buffers: len bytes of one value.
Buf(len, byte) == [i \in 1..len |-> byte]
Bufs == {Buf(len, byte) : len \in 0..MaxBuf, byte \in 1..MaxByte}
SeekTargets == {0, BLOCK_SIZE - 1, NDIRECT * BLOCK_SIZE, MaxFileBlocks * BLOCK_SIZE}

\* path is the path of a successful create_file, create_dir or remove, else <<>>.
Call(op, path, ok, err, val) ==
    [op |-> op, path |-> path, ok |-> ok, err |-> err, val |-> val]

Tick(d) == IF d # disk THEN now + 1 ELSE now

Init ==
    /\ disk = Format(0)
    /\ up = TRUE
    /\ streams = [h \in Slots |-> NoStream]
    /\ now = 0
    /\ last = Call("create", <<>>, TRUE, "None", 0)

\* create_file(path); the returned stream is kept in slot h, or dropped (h = 0).
DoCreateFile(path, h) ==
    /\ up /\ now < MaxClock
    /\ IF h = 0 THEN TRUE ELSE ~streams[h].open
    /\ \E r \in {CreateFile(disk, path, now + 1)} :
        /\ disk' = r.disk
        /\ now' = Tick(r.disk)
        /\ streams' = IF r.ok /\ h # 0 THEN [streams EXCEPT ![h] = Slot(Stream(r.val, 0))]
                      ELSE streams
        /\ last' = Call("create_file", IF r.ok THEN path ELSE <<>>, r.ok, r.err, r.val)
    /\ UNCHANGED up

DoCreateDir(path) ==
    /\ up /\ now < MaxClock
    /\ \E r \in {CreateDir(disk, path, now + 1)} :
        /\ disk' = r.disk
        /\ now' = Tick(r.disk)
        /\ last' = Call("create_dir", IF r.ok THEN path ELSE <<>>, r.ok, r.err, r.val)
    /\ UNCHANGED <<up, streams>>

DoRemove(path) ==
    /\ up /\ now < MaxClock
    /\ \E r \in {Remove(disk, path)} :
        /\ disk' = r.disk
        /\ now' = Tick(r.disk)
        /\ last' = Call("remove", IF r.ok THEN path ELSE <<>>, r.ok, r.err, r.val)
    /\ UNCHANGED <<up, streams>>

DoOpenFile(path, h) ==
    /\ up
    /\ ~streams[h].open
    /\ \E r \in {OpenFile(disk, path)} :
        /\ streams' = IF r.ok THEN [streams EXCEPT ![h] = Slot(Stream(r.val, 0))] ELSE streams
    /\ UNCHANGED <<disk, up, now, last>>

DoDropStream(h) ==
    /\ streams[h].open
    /\ streams' = [streams EXCEPT ![h] = NoStream]
    /\ UNCHANGED <<disk, up, now, last>>

DoWrite(h, buf) ==
    /\ streams[h].open /\ now < MaxClock
    /\ \E r \in {FileWrite(disk, streams[h], buf, now + 1)} :
        /\ disk' = r.disk
        /\ now' = Tick(r.disk)
        /\ streams' = [streams EXCEPT ![h] = Slot(r.stream)]
        /\ last' = Call("write", <<>>, r.ok, r.err, r.n)
    /\ UNCHANGED up

DoRead(h, n) ==
    /\ streams[h].open
    /\ \E r \in {FileRead(disk, streams[h], n)} :
        /\ streams' = [streams EXCEPT ![h] = Slot(r.stream)]
    /\ disk' = FileReadImage(disk, streams[h], n)
    /\ UNCHANGED <<up, now, last>>

DoSeek(h, whence, n) ==
    /\ streams[h].open
    /\ \E r \in FileSeekOutcomes(disk, streams[h], whence, n) :
        /\ streams' = [streams EXCEPT ![h] = Slot(r.stream)]
    /\ UNCHANGED <<disk, up, now, last>>

\* The Vfs and its streams are dropped: the session ends with the image as it is.
DoClose ==
    /\ up
    /\ up' = FALSE
    /\ streams' = [h \in Slots |-> NoStream]
    /\ last' = Call("close", <<>>, TRUE, "None", 0)
    /\ UNCHANGED <<disk, now>>

\* The process dies inside a write call, after the k-th write the call makes and
\* before its last one: the image keeps what had been written.
DoCrashInWrite(h, buf) ==
    /\ streams[h].open /\ now < MaxClock
    /\ \E r \in {FileWrite(disk, streams[h], buf, now + 1)} :
        \E k \in 1..(Len(r.trace) - 1) :
            /\ r.ok
            /\ disk' = r.trace[k]
            /\ now' = now + 1
            /\ last' = Call("crash", <<>>, FALSE, "None", streams[h].inode_id)
    /\ up' = FALSE
    /\ streams' = [s \in Slots |-> NoStream]

\* recovered_count of the recovery pass from d to d2: the bits it cleared.
RecoveredCount(d, d2) ==
    Cardinality({i \in 0..(NInodes - 1) : IsInodeAllocated(d, i) /\ ~IsInodeAllocated(d2, i)})

\* Vfs::open on the image: the recovery pass, then a new session; val is recovered_count.
DoOpen ==
    /\ ~up
    /\ disk' = RecoverCorruptedInodes(disk)
    /\ up' = TRUE
    /\ last' = Call("open", <<>>, TRUE, "None",
                    RecoveredCount(disk, RecoverCorruptedInodes(disk)))
    /\ UNCHANGED <<streams, now>>

\* The namespace: every path, no stream kept.
Next ==
    \/ \E path \in CreatePaths : DoCreateFile(path, 0)
    \/ \E path \in CreatePaths : DoCreateDir(path)
    \/ \E path \in RemovePaths : DoRemove(path)
    \/ DoClose
    \/ DoOpen

Spec == Init /\ [][Next]_vars

\* One stream at a time over the files of the root: written, read, torn and recovered.
OneSlot == {h \in Slots : h = 1}

\* The stream-centred sessions stop the clock earlier; a crash may still follow.
InIOClock == now' <= MaxIOClock

NextIO ==
    \/ \E path \in FilePaths, h \in OneSlot \cup {0} : DoCreateFile(path, h) /\ InIOClock
    \/ \E path \in FilePaths : DoRemove(path) /\ InIOClock
    \/ \E path \in StreamPaths, h \in OneSlot : DoOpenFile(path, h)
    \/ \E h \in OneSlot : DoDropStream(h)
    \/ \E h \in OneSlot, buf \in Bufs : DoWrite(h, buf) /\ InIOClock
    \/ \E h \in OneSlot, n \in 0..MaxBuf : DoRead(h, n)
    \/ \E h \in OneSlot, n \in SeekTargets : DoSeek(h, "Start", n)
    \/ DoClose
    \/ \E h \in OneSlot, buf \in Bufs : DoCrashInWrite(h, buf)
    \/ DoOpen

SpecIO == Init /\ [][NextIO]_vars

\* A written file used as a directory: create_file and find_in_dir take any inode
\* as the parent, so the bytes a stream wrote are read back as directory entries.
\* The buffers are the images of one live entry, for every ID a bitmap lookup accepts.
EntryIds == 0..(NInodes + TotalBlocks - 1)
EntryBufs == {EntryToCells([inode_id |-> id, name |-> n, is_active |-> 1]) :
                 id \in EntryIds, n \in Names}

NextEntry ==
    \/ \E path \in FilePaths, h \in OneSlot : DoCreateFile(path, h)
    \/ \E path \in FilePaths : DoCreateDir(path)
    \/ \E h \in OneSlot, buf \in EntryBufs : DoWrite(h, buf)
    \/ \E h \in OneSlot : DoDropStream(h)
    \/ \E path \in CreatePaths : DoRemove(path)

SpecEntry == Init /\ [][NextEntry]_vars

\* Two streams side by side.  The session starts with the files "/a" and "/b"
\* created and their streams kept; stream h writes the byte h, so that what one
\* stream wrote can be told from what the other wrote.
PairBufs(h) == {Buf(1, h)}

InitPair ==
    /\ disk = CreateFile(CreateFile(Format(0), <<1>>, 0).disk, <<2>>, 0).disk
    /\ up = TRUE
    /\ streams = [h \in Slots |-> Slot(Stream(h, 0))]
    /\ now = 0
    /\ last = Call("create_file", <<2>>, TRUE, "None", 2)

NextPair ==
    \/ \E h \in Slots : \E buf \in PairBufs(h) : DoWrite(h, buf)
    \/ \E h \in Slots : DoRead(h, 1)
    \/ \E h \in Slots : DoSeek(h, "Start", 0)
    \/ \E path \in FilePaths : DoRemove(path)
    \/ \E path \in FilePaths, h \in Slots : DoOpenFile(path, h)
    \/ \E h \in Slots : DoDropStream(h)

SpecPair == InitPair /\ [][NextPair]_vars


\* One file and one stream on it, moved over the whole range of positions: the
\* ends of the direct and indirect ranges and the first index that no longer
\* fits a u32.
WidePositions == {0, NDIRECT * BLOCK_SIZE, MaxFileBlocks * BLOCK_SIZE, U32 * BLOCK_SIZE}

InitWide ==
    /\ disk = CreateFile(Format(0), <<1>>, 0).disk
    /\ up = TRUE
    /\ streams = [h \in Slots |-> IF h = 1 THEN Slot(Stream(1, 0)) ELSE NoStream]
    /\ now = 0
    /\ last = Call("create_file", <<1>>, TRUE, "None", 1)

\* The calls of these sessions come in pairs: a seek, then one write or one read.
AfterSeek(h) == streams[h].position \in WidePositions

NextWide ==
    \/ \E h \in OneSlot, buf \in Bufs : DoWrite(h, buf) /\ AfterSeek(h)
    \/ \E h \in OneSlot, n \in 0..MaxBuf : DoRead(h, n) /\ AfterSeek(h)
    \/ \E h \in OneSlot, n \in WidePositions : DoSeek(h, "Start", n)

SpecWide == InitWide /\ [][NextWide]_vars

\* ------------------------------------------------------------ claims
\* The byte strings of the round trip: n bytes cycling through 1..MaxByte+1 from k.
Pattern(n, k) == [i \in 1..n |-> 1 + ((i + k) % (MaxByte + 1))]
RoundTripLens == {0, 1, BLOCK_SIZE, NDIRECT * BLOCK_SIZE + 1, (NDIRECT + 1) * BLOCK_SIZE + 1}
RoundTripData == {Pattern(n, k) : n \in RoundTripLens, k \in 0..MaxByte}

\* create_file(path), write_all(B) through the returned stream, open_file(path), read_to_end.
RoundTrip(d, path, B, t) ==
    LET c == CreateFile(d, path, t)
        w == WriteAll(c.disk, Stream(c.val, 0), B, t)
        o == OpenFile(w.disk, path)
        r == ReadToEnd(w.disk, Stream(o.val, 0))
    IN [wrote |-> c.ok /\ w.ok,
        back |-> o.ok /\ r.ok /\ r.bytes = B,
        indirect |-> Len(B) > NDIRECT * BLOCK_SIZE]

\* C1: in every session state, for every path that does not resolve and every byte
\* string, a file created at that path and written in full through the returned
\* stream reads back, through a new stream opened on the same path, as exactly the
\* bytes written, also when they span the direct block and the pointer block.
C1_RoundTrip ==
    up => \A path \in CreatePaths, B \in RoundTripData :
            LET rt == RoundTrip(disk, path, B, now + 1) IN
            (~FindInodeByPath(disk, path).ok /\ rt.wrote) => rt.back

\* A round trip through the pointer block that succeeds after the namespace changed.
C1_IndirectRoundTripSeen ==
    /\ up /\ now > 0
    /\ \E path \in CreatePaths, B \in RoundTripData :
            LET rt == RoundTrip(disk, path, B, now + 1) IN
            ~FindInodeByPath(disk, path).ok /\ rt.indirect /\ rt.wrote /\ rt.back

\* What a session observes of image d at a path: read_dir's listing, and the bytes
\* that read_to_end delivers through a stream opened there.
View(d, path) ==
    LET l == ReadDir(d, path)
        o == OpenFile(d, path)
    IN [listed |-> l.ok, listing |-> l.val, opened |-> o.ok,
        contents |-> IF o.ok THEN ReadToEnd(d, Stream(o.val, 0))
                     ELSE [ok |-> FALSE, bytes |-> <<>>]]

\* Dropping the Vfs writes nothing; open runs the recovery pass on the image.
Reopened(d) == RecoverCorruptedInodes(d)

\* C2: in every session state, and after any further write_all through an open
\* stream, closing and reopening the image leaves, at every path, the listing and
\* the file contents that were observable before the close.
C2_Persistence ==
    up => /\ \A path \in AllPaths : View(disk, path) = View(Reopened(disk), path)
          /\ \A h \in Slots, B \in RoundTripData :
                streams[h].open =>
                    LET w == WriteAll(disk, streams[h], B, now + 1) IN
                    \A path \in AllPaths :
                        View(w.disk, path) = View(Reopened(w.disk), path)

\* A file written through its stream whose contents survive close and open.
C2_WrittenFileSurvives ==
    /\ up /\ last.op = "write" /\ last.ok
    /\ \E path \in FilePaths :
            /\ View(disk, path).opened
            /\ View(disk, path).contents.bytes # <<>>
            /\ View(disk, path) = View(Reopened(disk), path)

\* How often read_dir lists a name; -1 when read_dir fails.
Listed(d, dirpath, name) ==
    LET l == ReadDir(d, dirpath) IN
    IF ~l.ok THEN -1 ELSE Cardinality({i \in 1..Len(l.val) : l.val[i] = name})

OrdinaryNames(d, dirpath) ==
    LET l == ReadDir(d, dirpath) IN {l.val[i] : i \in 1..Len(l.val)} \cap Names

\* C3: in every session state, a successful create_file or create_dir of a name its
\* parent does not list makes read_dir(parent) list that name exactly once; a
\* directory created at a path that did not resolve lists no child, none having
\* been created in it; and a successful remove of a name listed once leaves
\* read_dir(parent) without that name.
C3_DirectorySet ==
    up => /\ \A path \in CreatePaths :
                Listed(disk, ParentPath(path), LastName(path)) = 0 =>
                    /\ CreateFile(disk, path, now + 1).ok =>
                         Listed(CreateFile(disk, path, now + 1).disk,
                                ParentPath(path), LastName(path)) = 1
                    /\ CreateDir(disk, path, now + 1).ok =>
                         /\ Listed(CreateDir(disk, path, now + 1).disk,
                                   ParentPath(path), LastName(path)) = 1
                         /\ ~FindInodeByPath(disk, path).ok =>
                                OrdinaryNames(CreateDir(disk, path, now + 1).disk, path) = {}
          /\ \A path \in RemovePaths :
                (Listed(disk, ParentPath(path), LastName(path)) = 1 /\ Remove(disk, path).ok) =>
                    Listed(Remove(disk, path).disk, ParentPath(path), LastName(path)) \in {0, -1}

\* A directory holding one child, listed once, after a create_file in it.
C3_ChildListedOnce ==
    /\ up /\ last.op = "create_file" /\ last.ok /\ Len(last.path) = 2
    /\ Listed(disk, ParentPath(last.path), LastName(last.path)) = 1
    /\ OrdinaryNames(disk, ParentPath(last.path)) = {LastName(last.path)}

\* The inodes recovery looks at.
RecoveredIds == 1..(NInodes - 1)

\* C4: across every open, each inode with ID >= 1 that was allocated and in flight
\* (is_valid = 0) has its bitmap bit cleared, each that was allocated and valid keeps
\* its bit, and no allocated inode with ID >= 1 is in flight once open has returned.
C4_Recovery ==
    [][(~up /\ up') =>
          \A i \in RecoveredIds :
              /\ (IsInodeAllocated(disk, i) /\ GetInode(disk, i).is_valid = 0)
                    => ~IsInodeAllocated(disk', i)
              /\ (IsInodeAllocated(disk, i) /\ GetInode(disk, i).is_valid = 1)
                    => IsInodeAllocated(disk', i)
              /\ IsInodeAllocated(disk', i) => GetInode(disk', i).is_valid = 1]_vars

\* An open whose recovery pass cleared the bit of an in-flight inode and kept the
\* bit of a valid one.
C4_RecoveredOneKeptOne ==
    /\ up /\ last.op = "open" /\ last.val > 0
    /\ \E i \in RecoveredIds : ~IsInodeAllocated(disk, i) /\ GetInode(disk, i).is_valid = 0
                                /\ GetInode(disk, i).created_at > 0
    /\ \E i \in RecoveredIds : IsInodeAllocated(disk, i) /\ GetInode(disk, i).is_valid = 1

\* The files of the root whose inode the recovery pass on image d deallocates.
Dangling(d) ==
    {path \in FilePaths :
        /\ FindInodeByPath(d, path).ok
        /\ FindInodeByPath(d, path).val \in RecoveredIds
        /\ ~IsInodeAllocated(Reopened(d), FindInodeByPath(d, path).val)}

NotFound(r) == ~r.ok /\ r.err = "NotFound"

\* C5: when the session has ended and the next open deallocates the inode a path
\* names, every lookup of that path in the reopened session fails with NotFound,
\* right after the open and also after any further create_file, create_dir or
\* remove of another path.
C5_DanglingLookup ==
    ~up => \A path \in Dangling(disk) :
              /\ NotFound(OpenFile(Reopened(disk), path))
              /\ NotFound(Stat(Reopened(disk), path))
              /\ \A other \in FilePaths \ {path} :
                    /\ NotFound(OpenFile(CreateFile(Reopened(disk), other, now + 1).disk, path))
                    /\ NotFound(OpenFile(CreateDir(Reopened(disk), other, now + 1).disk, path))
                    /\ NotFound(OpenFile(Remove(Reopened(disk), other).disk, path))

\* A crash inside a write left a file of the root in flight, and the lookup of its
\* path right after the open fails with NotFound.
C5_DanglingSeen ==
    /\ ~up /\ last.op = "crash"
    /\ \E path \in Dangling(disk) : NotFound(OpenFile(Reopened(disk), path))

\* The on-disk states inside one successful write call w: after each write the call
\* makes except its last, the inode save that carries size and modified_at.
Window(w) == {w.trace[k] : k \in 1..(Len(w.trace) - 1)}

\* In every state of the window the inode is in flight, and an open of the image
\* as the crash left it ends with the inode's bit cleared.
TornWindowHolds(s, w) ==
    \A d \in Window(w) :
        /\ GetInode(d, s.inode_id).is_valid = 0
        /\ ~IsInodeAllocated(Reopened(d), s.inode_id)

\* C6 as stated: for every open stream and every buffer, in every on-disk state
\* inside a successful write call the stream's inode has is_valid = 0, and a crash
\* there followed by open ends with that inode's bitmap bit cleared.
C6_TornWindow_AsStated ==
    \A h \in Slots, buf \in Bufs :
        (streams[h].open /\ FileWrite(disk, streams[h], buf, now + 1).ok) =>
            TornWindowHolds(streams[h], FileWrite(disk, streams[h], buf, now + 1))

\* C6 for streams on inodes with ID >= 1, the inodes recovery looks at.
C6_TornWindow ==
    \A h \in Slots, buf \in Bufs :
        (/\ streams[h].open
         /\ streams[h].inode_id >= 1
         /\ FileWrite(disk, streams[h], buf, now + 1).ok) =>
            TornWindowHolds(streams[h], FileWrite(disk, streams[h], buf, now + 1))

\* A stream on an allocated, valid file whose next write goes through the pointer
\* block: the window holds the bitmap, inode, pointer and data writes.
C6_WindowSeen ==
    \E h \in Slots, buf \in Bufs :
        /\ streams[h].open
        /\ streams[h].inode_id >= 1
        /\ IsInodeAllocated(disk, streams[h].inode_id)
        /\ GetInode(disk, streams[h].inode_id).is_valid = 1
        /\ streams[h].position >= NDIRECT * BLOCK_SIZE
        /\ FileWrite(disk, streams[h], buf, now + 1).ok
        /\ Cardinality(Window(FileWrite(disk, streams[h], buf, now + 1))) >= 5

\* open_file and stat of a path both fail with NotFound on image d.
Gone(d, path) == NotFound(OpenFile(d, path)) /\ NotFound(Stat(d, path))

\* Gone on d, and still gone after one further call that does not create the name:
\* a remove of another path, or a create of another name.
StaysGone(d, path, t) ==
    /\ Gone(d, path)
    /\ \A other \in RemovePaths \ {path} : Gone(Remove(d, other).disk, path)
    /\ \A other \in CreatePaths :
          LastName(other) # LastName(path) =>
              /\ Gone(CreateFile(d, other, t).disk, path)
              /\ Gone(CreateDir(d, other, t).disk, path)

\* C7: in every session state, after a successful remove of a path whose name its
\* parent directory lists exactly once, open_file and stat of that path fail with
\* NotFound, and keep failing after a further call that does not create it.
C7_RemovedIsGone ==
    up => \A path \in RemovePaths :
            (Listed(disk, ParentPath(path), LastName(path)) = 1 /\ Remove(disk, path).ok) =>
                StaysGone(Remove(disk, path).disk, path, now + 1)

\* A file in a directory below the root was removed, and its path is gone.
C7_RemovedSeen ==
    /\ up /\ last.op = "remove" /\ last.ok /\ Len(last.path) = 2
    /\ last.path \in CreatePaths
    /\ Gone(disk, last.path)

\* C8: in every session state (after format and after any sequence of create_file,
\* create_dir, remove and open), bit 0 of the inode bitmap is set, inode 0 is a
\* directory, and allocate_inode does not return 0.
C8_RootAllocated ==
    up => /\ IsInodeAllocated(disk, 0)
          /\ GetInode(disk, 0).inode_type = 1
          /\ AllocateInode(disk).ok => AllocateInode(disk).id # 0

\* A remove of an ordinary path succeeded and the root is still in place.
C8_RootKeptSeen ==
    /\ up /\ last.op = "remove" /\ last.ok /\ last.path \in CreatePaths
    /\ IsInodeAllocated(disk, 0)
    /\ GetInode(disk, 0).inode_type = 1
    /\ AllocateInode(disk).ok /\ AllocateInode(disk).id # 0

\* Directory id holds live entries "." for itself and ".." for parent.
HasDots(d, id, parent) ==
    /\ FindInDir(d, id, DOT).ok /\ FindInDir(d, id, DOT).val = id
    /\ FindInDir(d, id, DOTDOT).ok /\ FindInDir(d, id, DOTDOT).val = parent

\* C9: right after format the root holds live entries "." and ".." for inode 0,
\* and right after a successful create_dir the new directory holds a live "."
\* for itself and a live ".." for the directory it was created in.
C9_DotEntries ==
    up => /\ now = 0 => HasDots(disk, 0, 0)
          /\ \A path \in CreatePaths :
                CreateDir(disk, path, now + 1).ok =>
                    HasDots(CreateDir(disk, path, now + 1).disk,
                            CreateDir(disk, path, now + 1).val,
                            ResolveParent(disk, path).val)

\* A create_dir below the root succeeded and the new directory has both entries.
C9_NewDirHasDots ==
    /\ up /\ last.op = "create_dir" /\ last.ok /\ Len(last.path) = 2
    /\ last.val # 0
    /\ HasDots(disk, last.val, ResolveParent(disk, last.path).val)

\* The block IDs the allocated inodes of d point at.  A pointer of value 0 is
\* the source's "no block" (just_read returns None for it) and points at nothing.
PointerEntries(d, ib) ==
    IF ib \in 1..(TotalBlocks - 1) THEN {d.data[ib][k] : k \in 0..(PtrsPerBlock - 1)} \ {0}
    ELSE {}
Referenced(d) ==
    UNION {
        ({GetInode(d, i).direct_blocks[k] : k \in 0..(NDIRECT - 1)} \ {0})
        \cup ({GetInode(d, i).indirect_blocks} \ {0})
        \cup PointerEntries(d, GetInode(d, i).indirect_blocks)
        : i \in {j \in 0..(NInodes - 1) : IsInodeAllocated(d, j)}}

\* C10: in every state of a session without a crash, a block ID is set in the
\* data bitmap if and only if an allocated inode points at it (directly, as its
\* pointer block, or through a non-zero entry of its pointer block).
C10_DataBitmapExact ==
    up => \A b \in 0..(TotalBlocks - 1) : disk.dbm[b] <=> b \in Referenced(disk)

\* After a remove, with three inodes in use, the bitmap and the pointers agree on
\* every block but block 0.
C10_ExactApartFromBlock0 ==
    /\ up /\ last.op = "remove" /\ last.ok
    /\ Cardinality({j \in 0..(NInodes - 1) : IsInodeAllocated(disk, j)}) >= 3
    /\ \A b \in 1..(TotalBlocks - 1) : disk.dbm[b] <=> b \in Referenced(disk)

\* The block slots of inode i: its direct slots, then its pointer-block slot, then
\* the entries of its pointer block.
BlockSlots == 0..(NDIRECT + PtrsPerBlock)
SlotValue(d, i, k) ==
    IF k < NDIRECT THEN GetInode(d, i).direct_blocks[k]
    ELSE IF k = NDIRECT THEN GetInode(d, i).indirect_blocks
    ELSE IF GetInode(d, i).indirect_blocks \in 1..(TotalBlocks - 1)
         THEN d.data[GetInode(d, i).indirect_blocks][k - NDIRECT - 1]
         ELSE 0
AllocatedInodes(d) == {i \in 0..(NInodes - 1) : IsInodeAllocated(d, i)}
NoSharedBlock(d) ==
    \A i, j \in AllocatedInodes(d) : \A k, l \in BlockSlots :
        (<<i, k>> # <<j, l>> /\ SlotValue(d, i, k) # 0) => SlotValue(d, i, k) # SlotValue(d, j, l)
AllocatesFreeBlock(d) ==
    /\ AllocateDataBlock(d).ok => ~d.dbm[AllocateDataBlock(d).id]
    /\ FileAllocateDataBlock(d).ok => ~d.dbm[FileAllocateDataBlock(d).id]

\* C11: in every reachable state no data block is held by two different block
\* slots of allocated inodes, and both allocators return a block whose bit was clear.
C11_NoDoubleAllocation ==
    NoSharedBlock(disk) /\ AllocatesFreeBlock(disk)

\* After a successful remove two allocated inodes each hold a block of their own.
C11_TwoOwnersSeen ==
    /\ up /\ last.op = "remove" /\ last.ok
    /\ NoSharedBlock(disk)
    /\ \E i, j \in AllocatedInodes(disk) :
          i # j /\ SlotValue(disk, i, 0) # 0 /\ SlotValue(disk, j, 0) # 0

\* The live entries of the allocated directories of d: the blocks directory i holds,
\* and in them the slots whose is_active is 1.
DirBlocks(d, i) ==
    {SlotValue(d, i, k) : k \in BlockSlots \ {NDIRECT}} \cap 1..(TotalBlocks - 1)
LiveEntries(d) ==
    {ReadEntry(d, b, s) :
        <<b, s>> \in {bs \in (1..(TotalBlocks - 1)) \X (0..(SlotsPerBlock - 1)) :
                        /\ \E i \in AllocatedInodes(d) :
                              GetInode(d, i).inode_type = 1 /\ bs[1] \in DirBlocks(d, i)
                        /\ ReadEntry(d, bs[1], bs[2]).is_active = 1}}
NamedValid(d) ==
    {e.inode_id : e \in {x \in LiveEntries(d) : GetInode(d, x.inode_id).is_valid = 1}}

\* C12: in every state of a session in which no call is in progress, the inode IDs
\* whose inode-bitmap bit is set are 0 and the IDs that a live directory entry
\* names and whose inode has is_valid = 1.
C12_InodeBitmapSound ==
    AllocatedInodes(disk) = {0} \cup NamedValid(disk)

\* After a successful remove that leaves three inodes in use, the two sets agree.
C12_SoundAfterRemove ==
    /\ up /\ last.op = "remove" /\ last.ok
    /\ Cardinality(AllocatedInodes(disk)) >= 3
    /\ AllocatedInodes(disk) = {0} \cup NamedValid(disk)

\* What the image holds of the file with inode i: its size, its block pointers
\* and the bytes read_to_end delivers through a stream on it.
Files(d) == {i \in AllocatedInodes(d) : GetInode(d, i).inode_type = 0}
FileState(d, i) ==
    [size |-> GetInode(d, i).size,
     pointers |-> [k \in BlockSlots |-> SlotValue(d, i, k)],
     bytes |-> ReadToEnd(d, Stream(i, 0))]

\* C13: a write through a stream on inode A changes the position of no other
\* stream and leaves the size, the block pointers and the readable bytes of every
\* file whose inode ID is not A as they were.
C13_DistinctInodesIndependent ==
    [][(last'.op = "write" /\ disk' # disk) =>
          \E h \in Slots :
              /\ streams[h].open
              /\ \A g \in Slots \ {h} : streams'[g] = streams[g]
              /\ \A i \in Files(disk) \ {streams[h].inode_id} :
                    FileState(disk', i) = FileState(disk, i)]_vars

\* Both files hold a byte of their own stream, written while both streams were open
\* on distinct allocated inodes.
C13_BothWrittenSeen ==
    /\ streams[1].open /\ streams[2].open
    /\ streams[1].inode_id # streams[2].inode_id
    /\ {streams[1].inode_id, streams[2].inode_id} \subseteq Files(disk)
    /\ last.op = "write" /\ last.ok
    /\ \A h \in Slots : FileState(disk, streams[h].inode_id).bytes.bytes = <<h>>

\* The buffers one stream of a pair may hand to write: its own byte, up to a block
\* and one byte more.
SharedBufs(g) == {Buf(len, g) : len \in {1, MaxBuf, BLOCK_SIZE + 1}}

\* Stream h, put at offset p of image d, reads n bytes and gets exactly bytes.
ReadsAt(d, h, p, n, bytes) ==
    LET r == FileRead(d, FileSeek(d, streams[h], "Start", p).stream, n) IN
    r.ok /\ r.bytes = bytes /\ r.stream.position = p + n

\* C14: whenever two streams are open on the same inode, after a write by one of
\* them returns, the other reads the written bytes at every offset the write
\* covered, finds the size at or past the end of the write, and a seek from the
\* end lands on that size; its own position is where it was.
C14_SharedFile ==
    \A g, h \in Slots :
        (g # h /\ streams[g].open /\ streams[h].open
              /\ streams[g].inode_id = streams[h].inode_id) =>
            \A buf \in SharedBufs(g) :
                LET w == FileWrite(disk, streams[g], buf, now + 1)
                    p == streams[g].position
                IN w.ok =>
                    /\ w.n >= 1
                    /\ w.stream.position = p + w.n
                    /\ \A off \in 0..(w.n - 1) :
                          ReadsAt(w.disk, h, p + off, w.n - off, SubSeq(buf, off + 1, w.n))
                    /\ GetInode(w.disk, streams[h].inode_id).size >= p + w.n
                    /\ FileSeek(w.disk, streams[h], "End", 0).stream.position
                          = GetInode(w.disk, streams[h].inode_id).size

\* Two streams on one inode at different positions: the one that did not write
\* stands inside the bytes the other has just written and reads the writer's byte.
C14_OtherStreamReadsSeen ==
    \E g, h \in Slots :
        /\ g # h /\ streams[g].open /\ streams[h].open
        /\ streams[g].inode_id = streams[h].inode_id
        /\ last.op = "write" /\ last.ok
        /\ streams[h].position < streams[g].position
        /\ FileRead(disk, streams[h], 1).bytes = <<g>>

Mutating == {"create_file", "create_dir", "remove", "write"}

\* C15: when a create_file, create_dir, remove or write call that changed the
\* image returns successfully, the host file holds no write that a sync_all has
\* not followed.
C15_SyncedOnReturn ==
    [][(last'.op \in Mutating /\ last'.ok /\ disk' # disk) => ~disk'.dirty]_vars

\* A create_file returned with everything synced, the image having held unsynced
\* writes before the call.
C15_CreateFileSyncedSeen ==
    /\ up /\ now > 1 /\ last.op = "create_file" /\ last.ok /\ last.val # 0
    /\ ~disk.dirty

\* seek(Start(p)) on a stream of inode i, then read calls until n bytes have come
\* or a call delivers nothing.
RECURSIVE ReadUpTo(_, _, _, _)
ReadUpTo(d, st, n, acc) ==
    IF n = 0 THEN acc
    ELSE LET r == FileRead(d, st, n) IN
         IF ~r.ok \/ r.bytes = <<>> THEN acc
         ELSE ReadUpTo(d, r.stream, n - Len(r.bytes), acc \o r.bytes)
SeekRead(d, i, p, n) == ReadUpTo(d, FileSeek(d, Stream(i, 0), "Start", p).stream, n, <<>>)

Content(d, i) == SeekRead(d, i, 0, GetInode(d, i).size)

\* The seek law across one more write, w, made through stream st with buffer buf
\* on image d: in every file, an offset the write covered reads as the byte of
\* buf, and every other offset below the old size reads as it did before.
LawAcross(d, st, buf, w) ==
    \A i \in Files(d) :
        \A p \in 0..GetInode(w.disk, i).size : \A n \in 1..MaxBuf :
            /\ Len(SeekRead(w.disk, i, p, n)) = Min2(n, GetInode(w.disk, i).size - p)
            /\ \A k \in 1..Len(SeekRead(w.disk, i, p, n)) :
                  IF i = st.inode_id /\ p + k - 1 >= st.position
                                    /\ p + k - 1 < st.position + w.n
                  THEN SeekRead(w.disk, i, p, n)[k] = buf[p + k - st.position]
                  ELSE p + k - 1 < GetInode(d, i).size =>
                          SeekRead(w.disk, i, p, n)[k] = Content(d, i)[p + k]

\* C16: in every state, after one more successful write through any open stream,
\* seeking any file to a position p <= size and reading n bytes returns, at each
\* offset below size, the byte of the most recent write that covered the offset:
\* the byte of this write where it covered the offset, the byte read before it
\* elsewhere.
C16_SeekLaw ==
    \A h \in Slots : streams[h].open =>
        \A buf \in SharedBufs(h) :
            FileWrite(disk, streams[h], buf, now + 1).ok =>
                LawAcross(disk, streams[h], buf, FileWrite(disk, streams[h], buf, now + 1))

\* A file whose bytes come from two writes, the later one over part of the earlier.
C16_OverwrittenSeen ==
    \E i \in Files(disk) :
        /\ GetInode(disk, i).size >= 2
        /\ \E p, q \in 1..Len(Content(disk, i)) : Content(disk, i)[p] = 1 /\ Content(disk, i)[q] = 2
        /\ \A h \in Slots : streams[h].open /\ streams[h].inode_id = i
        /\ \A h \in Slots : \A buf \in SharedBufs(h) :
              FileWrite(disk, streams[h], buf, now + 1).ok
              /\ LawAcross(disk, streams[h], buf, FileWrite(disk, streams[h], buf, now + 1))

\* Positions at the start of a block whose logical index is MaxFileBlocks or more,
\* up to one block past the first index that no longer fits a u32.
LargePositions == {b * BLOCK_SIZE : b \in MaxFileBlocks..(U32 + 1)}
SizeLimit == MaxFileBlocks * BLOCK_SIZE

\* The write of buf through stream st, put at position p by seek(Start(p)).
WriteAt(d, st, p, buf, t) == FileWrite(d, FileSeek(d, st, "Start", p).stream, buf, t)

\* C17: for every open stream, a write of a non-empty buffer at a position whose
\* block index is MaxFileBlocks or more fails with FileTooLarge, leaves the data
\* region, the data bitmap and the size of the file as they were; and no
\* allocated inode has a size above MaxFileBlocks blocks.
C17_FileTooLarge ==
    /\ \A i \in AllocatedInodes(disk) : GetInode(disk, i).size <= SizeLimit
    /\ \A h \in Slots : streams[h].open =>
          \A p \in LargePositions : \A buf \in Bufs \ {<<>>} :
              /\ ~WriteAt(disk, streams[h], p, buf, now + 1).ok
              /\ WriteAt(disk, streams[h], p, buf, now + 1).err = "FileTooLarge"
              /\ WriteAt(disk, streams[h], p, buf, now + 1).disk.data = disk.data
              /\ WriteAt(disk, streams[h], p, buf, now + 1).disk.dbm = disk.dbm
              /\ GetInode(WriteAt(disk, streams[h], p, buf, now + 1).disk,
                          streams[h].inode_id).size
                    = GetInode(disk, streams[h].inode_id).size

\* A write at the first block index past the limit has failed with FileTooLarge.
C17_TooLargeSeen ==
    /\ up /\ last.op = "write" /\ ~last.ok /\ last.err = "FileTooLarge"
    /\ \E h \in Slots : streams[h].open /\ streams[h].position = SizeLimit
                          /\ GetInode(disk, streams[h].inode_id).size = 0

\* The seek calls looked at: from the start with a u64, from the current position
\* and from the end with an i64.
SeekCalls ==
    ({"Start"} \X {0, 1, SizeLimit + 1, I64 - 1, I64, 2 * I64 - 1})
        \cup ({"Current", "End"} \X {-I64, -1, 0, 1, SizeLimit, I64 - 1})

\* The target of the call as the sum of unbounded integers.
SeekTarget(d, st, whence, n) ==
    CASE whence = "Start" -> n
      [] whence = "Current" -> st.position + n
      [] OTHER -> GetInode(d, st.inode_id).size + n

\* What the call did, r, is what the contract says for target t: a negative
\* target is refused with InvalidInput and the stream stays where it was; any
\* other target is accepted, whatever the size, and the stream stands on it.  The
\* call has no access to the image; the size moves with the next write only, to
\* the end of that write if that is past it.
SeekContract(d, st, t, r) ==
    /\ t < 0 => (~r.ok /\ r.err = "InvalidInput" /\ r.stream = st)
    /\ t >= 0 =>
          /\ r.ok /\ r.stream = Stream(st.inode_id, t)
          /\ LET w == FileWrite(d, r.stream, Buf(MaxBuf, 1), now + 1) IN
             GetInode(w.disk, st.inode_id).size
                 = IF w.ok THEN Max2(GetInode(d, st.inode_id).size, t + w.n)
                   ELSE GetInode(d, st.inode_id).size

ClearBits(bm) == {i \in DOMAIN bm : ~bm[i]}

AllocatesLowest(bm) ==
    LET a == AllocateBit(bm) IN
    IF ClearBits(bm) = {}
    THEN ~a.ok /\ a.bm = bm
    ELSE /\ a.ok
         /\ a.id \in ClearBits(bm)
         /\ \A j \in ClearBits(bm) : a.id <= j
         /\ a.bm[a.id]
         /\ \A j \in DOMAIN bm \ {a.id} : a.bm[j] = bm[j]

\* The bits that follow inode_bitmap_start: the inode bitmap, then the data bitmap.
BitsFromInodeBitmap(d) ==
    [i \in 0..(NInodes + TotalBlocks - 1) |->
        IF i < NInodes THEN d.ibm[i] ELSE d.dbm[i - NInodes]]

RestKept(d, e) == e.itab = d.itab /\ e.data = d.data /\ e.len = d.len

AllocatorsKeepRest(d) ==
    /\ AllocateInode(d).disk.dbm = d.dbm
    /\ AllocateInode(d).disk.ibm = AllocateBit(d.ibm).bm
    /\ RestKept(d, AllocateInode(d).disk)
    /\ \A a \in {AllocateDataBlock(d), FileAllocateDataBlock(d)} :
          /\ a.disk.ibm = d.ibm
          /\ a.disk.dbm = AllocateBit(d.dbm).bm
          /\ a.ok = AllocateBit(d.dbm).ok
          /\ a.ok => a.id = AllocateBit(d.dbm).id
          /\ RestKept(d, a.disk)

FreeClearsOne(d) ==
    /\ \A i \in 0..(TotalBlocks - 1) :
          LET e == FreeDataBit(d, i) IN
          /\ ~e.dbm[i]
          /\ \A j \in 0..(TotalBlocks - 1) \ {i} : e.dbm[j] = d.dbm[j]
          /\ e.ibm = d.ibm
          /\ RestKept(d, e)
    /\ \A i \in 0..(NInodes + TotalBlocks - 1) :
          LET e == FreeInodeBit(d, i) IN
          /\ ~BitsFromInodeBitmap(e)[i]
          /\ \A j \in 0..(NInodes + TotalBlocks - 1) \ {i} :
                BitsFromInodeBitmap(e)[j] = BitsFromInodeBitmap(d)[j]
          /\ RestKept(d, e)

\* C19: allocate_bit over a region returns the lowest bit index whose bit is 0
\* (byte-major, least significant bit first), sets exactly that bit and no other,
\* and fails without changing the region when every bit is set; free_bit(i)
\* clears exactly bit i and no other.
C19_Allocator ==
    /\ AllocatesLowest(disk.ibm)
    /\ AllocatesLowest(disk.dbm)
    /\ AllocatorsKeepRest(disk)
    /\ FreeClearsOne(disk)

\* After a remove both bitmaps have a clear bit below a set one, and that clear
\* bit is the one allocate_inode and allocate_data_block take.
C19_GapTakenSeen ==
    /\ up
    /\ last.op = "remove"
    /\ last.ok
    /\ \E i \in ClearBits(disk.ibm) : \E j \in 0..(NInodes - 1) :
          /\ i < j
          /\ disk.ibm[j]
          /\ AllocateInode(disk).ok
          /\ AllocateInode(disk).id = i
    /\ \E i \in ClearBits(disk.dbm) : \E j \in 0..(TotalBlocks - 1) :
          /\ i < j
          /\ disk.dbm[j]
          /\ AllocateDataBlock(disk).ok
          /\ AllocateDataBlock(disk).id = i

MapIndexes == 0..(MaxFileBlocks - 1)

NewBlocks(d, e) == Cardinality({b \in 0..(TotalBlocks - 1) : e.dbm[b] /\ ~d.dbm[b]})

\* What the first call for a logical index has to allocate: nothing when the index
\* is mapped, else one data block, and the pointer block when there is none yet.
BlocksToAllocate(d, inode_id, block_index) ==
    LET inode == GetInode(d, inode_id) IN
    IF JustRead(d, inode, block_index).some THEN 0
    ELSE IF block_index >= NDIRECT /\ inode.indirect_blocks = 0 THEN 2
    ELSE 1

\* first is a call of an allocating block map from d, again the same call from
\* the image first left.
StableCalls(d, inode_id, block_index, first, again) ==
    first.ok =>
        /\ NewBlocks(d, first.disk) = BlocksToAllocate(d, inode_id, block_index)
        /\ JustRead(first.disk, GetInode(first.disk, inode_id), block_index).id = first.id
        /\ again.ok
        /\ again.id = first.id
        /\ again.disk = first.disk

BlockMapStable(d) ==
    \A inode_id \in AllocatedInodes(d) : \A block_index \in MapIndexes :
        /\ StableCalls(d, inode_id, block_index,
               AllocateIndirectOrDirectBlocks(d, inode_id, block_index),
               AllocateIndirectOrDirectBlocks(
                   AllocateIndirectOrDirectBlocks(d, inode_id, block_index).disk,
                   inode_id, block_index))
        /\ StableCalls(d, inode_id, block_index,
               FileAllocateIndirectOrDirectBlocks(d, inode_id, block_index),
               FileAllocateIndirectOrDirectBlocks(
                   FileAllocateIndirectOrDirectBlocks(d, inode_id, block_index).disk,
                   inode_id, block_index))

\* C20: for an allocated inode and a logical block index below the limit, the
\* first call of the allocating block map allocates one data block (and the
\* pointer block on the first indirect index) and records it, and the next call
\* for the same inode and index returns the same block and allocates nothing;
\* on every image the program calls the map on, the one format fills included.
C20_BlockMapStable ==
    \A d \in {FormatRoot(0), disk} : BlockMapStable(d)

\* A first call on an indirect index takes a pointer block and a data block,
\* neither of them block 0, and the repeated call returns the same data block.
C20_RepeatedCallSeen ==
    \E inode_id \in AllocatedInodes(disk) : \E block_index \in MapIndexes :
        LET first == FileAllocateIndirectOrDirectBlocks(disk, inode_id, block_index)
            again == FileAllocateIndirectOrDirectBlocks(first.disk, inode_id, block_index)
        IN  /\ up
            /\ block_index >= NDIRECT
            /\ first.ok
            /\ first.id # 0
            /\ NewBlocks(disk, first.disk) = 2
            /\ again.ok
            /\ again.id = first.id
            /\ again.disk = first.disk

OpenStreams == {h \in DOMAIN streams : streams[h].open}

ChangedCells(d, e) ==
    {c \in (0..(TotalBlocks - 1)) \X (0..(BLOCK_SIZE - 1)) : d.data[c[1]][c[2]] # e.data[c[1]][c[2]]}

\* One write call from image d through stream s: the count, the position, the
\* size, the bytes read back from the old position, and the cells it changed
\* (those of the block written, and the pointer block of the file).
WriteLaw(d, s, buf, t) ==
    LET w == FileWrite(d, s, buf, t)
        offset == s.position % BLOCK_SIZE
        n == Min2(BLOCK_SIZE - offset, Len(buf))
        old == GetInode(d, s.inode_id)
        new == GetInode(w.disk, s.inode_id)
        target == JustRead(w.disk, new, BlockIndex(s.position))
    IN  w.ok =>
          /\ w.n = n
          /\ w.stream = Stream(s.inode_id, s.position + n)
          /\ new.size = Max2(old.size, s.position + n)
          /\ FileRead(w.disk, s, n).ok
          /\ FileRead(w.disk, s, n).bytes = SubSeq(buf, 1, n)
          /\ target.some
          /\ \A c \in ChangedCells(d, w.disk) :
                \/ /\ c[1] = target.id
                   /\ c[2] >= offset
                   /\ c[2] < offset + n
                \/ c[1] = new.indirect_blocks

EmptyWriteLaw(d, s, t) ==
    LET w == FileWrite(d, s, <<>>, t) IN
    w.ok /\ w.n = 0 /\ w.disk = d /\ w.stream = s

\* C21: a successful write call with a non-empty buffer at position p writes
\* exactly min(BLOCK_SIZE - p mod BLOCK_SIZE, |buf|) bytes, all in one logical
\* block, returns that count, advances the position by it and sets the size to
\* max(old size, new position); a write of an empty buffer returns 0 and changes
\* nothing.
C21_WriteCall ==
    \A h \in OpenStreams :
        \A s \in {streams[h], Stream(streams[h].inode_id, (U32 + 1) * BLOCK_SIZE - 1)} :
            /\ \A buf \in Bufs \ {<<>>} : WriteLaw(disk, s, buf, now + 1)
            /\ EmptyWriteLaw(disk, s, now + 1)

\* A write of MaxBuf bytes one byte before the end of a block has returned 1.
C21_ShortWriteSeen ==
    /\ last.op = "write"
    /\ last.ok
    /\ last.val = 1
    /\ \E h \in OpenStreams : streams[h].position = BLOCK_SIZE

\* The logical block of an index is absent when its slot or pointer is empty;
\* there is no block to map at an index past the limit.
Absent(d, inode, block_index) ==
    IF block_index < MaxFileBlocks THEN ~JustRead(d, inode, block_index).some ELSE TRUE

\* One read call of n > 0 bytes from image d through stream s.
ReadLaw(d, s, n) ==
    LET r == FileRead(d, s, n)
        inode == GetInode(d, s.inode_id)
        offset == s.position % BLOCK_SIZE
        left == BLOCK_SIZE - offset
        count == Min2(Min2(left, inode.size - s.position), n)
    IN  IF s.position >= inode.size
        THEN r.ok /\ r.bytes = <<>> /\ r.stream = s
        ELSE /\ r.ok
             /\ count > 0
             /\ Len(r.bytes) = count
             /\ r.stream = Stream(s.inode_id, s.position + count)
             /\ s.position + count <= inode.size
             /\ (s.position \div BLOCK_SIZE < U32
                    /\ Absent(d, inode, s.position \div BLOCK_SIZE))
                  => \A i \in 1..count : r.bytes[i] = 0

DirSlots == MapIndexes \X (0..(SlotsPerBlock - 1))

SlotBefore(c, e) == c[1] < e[1] \/ (c[1] = e[1] /\ c[2] < e[2])

\* What slot c of directory dir holds: its entry when the logical block is mapped
\* and can be read, else nothing.
SlotEntry(d, dir, c) ==
    LET jr == JustRead(d, GetInode(d, dir), c[1]) IN
    IF jr.ok /\ jr.some /\ CanRead(d, jr.id, c[2] * DIR_SIZE, DIR_SIZE)
    THEN <<ReadEntry(d, jr.id, c[2])>> ELSE <<>>

FreeSlots(d, dir) ==
    {c \in DirSlots : SlotEntry(d, dir, c) # <<>> /\ SlotEntry(d, dir, c)[1].is_active = 0}

LiveSlot(d, dir, c) == SlotEntry(d, dir, c) # <<>> /\ SlotEntry(d, dir, c)[1].is_active # 0

\* The logical blocks the size of the directory reaches into.
StartedBlocks(d, dir) == {b \in MapIndexes : b * BLOCK_SIZE < GetInode(d, dir).size}

Directories(d) == {i \in AllocatedInodes(d) : GetInode(d, i).inode_type = 1}

\* One insert of (name, child) into directory dir of image d.
InsertLaw(d, dir, name, child, t) ==
    LET r == AddEntryToParent(d, dir, name, child, t)
        free == FreeSlots(d, dir)
        entry == [inode_id |-> child, name |-> name, is_active |-> 1]
    IN  /\ free # {} =>
              /\ r.ok
              /\ NewBlocks(d, r.disk) = 0
              /\ \E c \in free :
                    /\ \A e \in free : e = c \/ SlotBefore(c, e)
                    /\ SlotEntry(r.disk, dir, c) = <<entry>>
                    /\ \A e \in DirSlots \ {c} : SlotEntry(r.disk, dir, e) = SlotEntry(d, dir, e)
        /\ (r.ok /\ NewBlocks(d, r.disk) > 0) =>
              \A c \in DirSlots : c[1] \in StartedBlocks(d, dir) => LiveSlot(d, dir, c)
        /\ ~r.ok =>
              /\ free = {}
              /\ \/ \A c \in DirSlots : LiveSlot(d, dir, c)
                 \/ ~AllocateDataBlock(d).ok

InsertLawOn(d) ==
    \A dir \in Directories(d) : \A name \in Names : InsertLaw(d, dir, name, 1, now + 1)

\* C23: an insert into a directory puts the entry in the first slot, in (logical
\* block, slot) order, whose is_active is 0, leaving every other slot as it was
\* and allocating nothing while such a slot exists; it allocates a further block
\* only when every slot of every block the directory has reached is live; and it
\* fails only when every slot of all MaxFileBlocks blocks is live (or no data
\* block is free). It holds of every image an insert is made on, the one format
\* makes its second insert on included.
C23_DirectoryInsert ==
    \A d \in {FormatDot(0).disk, disk} : InsertLawOn(d)

\* After a remove the root has a tombstone below a live slot, and an insert puts
\* its entry in the tombstone without allocating a block.
C23_TombstoneReusedSeen ==
    /\ up
    /\ last.op = "remove"
    /\ last.ok
    /\ \E c \in FreeSlots(disk, 0) : \E e \in DirSlots :
          /\ SlotBefore(c, e)
          /\ LiveSlot(disk, 0, e)
          /\ \A f \in FreeSlots(disk, 0) : f = c \/ SlotBefore(c, f)
          /\ AddEntryToParent(disk, 0, 1, 1, now + 1).ok
          /\ SlotEntry(AddEntryToParent(disk, 0, 1, 1, now + 1).disk, 0, c)
                = <<[inode_id |-> 1, name |-> 1, is_active |-> 1]>>
          /\ NewBlocks(disk, AddEntryToParent(disk, 0, 1, 1, now + 1).disk) = 0

\* The directories of the image before a step that are the same directory after it.
SameDirectories ==
    {i \in Directories(disk) \cap Directories(disk') :
        GetInode(disk, i).created_at = GetInode(disk', i).created_at}

\* The slots of directory dir that hold a live entry after the step and did not
\* hold that entry before it.
SlotsFilled(dir) ==
    {c \in DirSlots : LiveSlot(disk', dir, c) /\ SlotEntry(disk', dir, c) # SlotEntry(disk, dir, c)}

\* The size a step leaves in a directory that was there before it, End(c) being
\* the offset one past slot c: it changes only with a slot filled, to one past
\* that slot when that is more than it was.
SizeStep(dir, End(_)) ==
    LET old == GetInode(disk, dir)
        new == GetInode(disk', dir)
    IN  /\ new.size >= old.size
        /\ last'.op = "remove" => new.size = old.size /\ new.modified_at = old.modified_at
        /\ IF SlotsFilled(dir) # {}
           THEN \E c \in SlotsFilled(dir) : new.size = Max2(old.size, End(c))
           ELSE new.size = old.size

\* The size of a directory made by the step: one past the slot of its "..",
\* the second of the two entries inserted into it.
SizeOfNew(dir, End(_)) ==
    \E c \in DirSlots :
        /\ LiveSlot(disk', dir, c)
        /\ SlotEntry(disk', dir, c)[1].name = DOTDOT
        /\ GetInode(disk', dir).size = End(c)

SizeLaw(End(_)) ==
    /\ \A dir \in SameDirectories : SizeStep(dir, End)
    /\ (last'.op = "create_dir" /\ last'.ok) => SizeOfNew(last'.val, End)

LiveNamed(d, dir, name) ==
    {c \in DirSlots : SlotEntry(d, dir, c) # <<>>
                        /\ SlotEntry(d, dir, c)[1].is_active = 1
                        /\ SlotEntry(d, dir, c)[1].name = name}

EarliestSlot(S) == CHOOSE c \in S : \A e \in S : e = c \/ SlotBefore(c, e)

\* r is what a create of path returned on image d, where the name of path was
\* already found in its parent dir.
CollisionLaw(d, path, dir, r) ==
    LET name == LastName(path)
        after == LiveNamed(r.disk, dir, name)
        rm == Remove(r.disk, path)
    IN  r.ok =>
          /\ ~d.ibm[r.val]
          /\ r.disk.ibm[r.val]
          /\ Cardinality(after) = Cardinality(LiveNamed(d, dir, name)) + 1
          /\ \E c \in after : SlotEntry(r.disk, dir, c)[1].inode_id = r.val
          /\ FindInodeByPath(r.disk, path).ok
          /\ FindInodeByPath(r.disk, path).val
                = SlotEntry(r.disk, dir, EarliestSlot(after))[1].inode_id
          /\ rm.ok
          /\ LiveNamed(rm.disk, dir, name) = after \ {EarliestSlot(after)}

\* The name of a create decides nothing about its success.
SucceedsAsOtherNames(d, path, ok, Create(_, _, _), t) ==
    \A name \in Names : Create(d, Append(ParentPath(path), name), t).ok = ok

C26_RecoveryFrame ==
    [][last'.op = "open" =>
         /\ disk'.dbm = disk.dbm
         /\ disk'.itab = disk.itab
         /\ disk'.data = disk.data
         /\ disk'.len = disk.len
         /\ \A i \in 0..(NInodes - 1) :
               disk'.ibm[i] # disk.ibm[i] =>
                   disk.ibm[i] /\ ~disk'.ibm[i] /\ GetInode(disk, i).is_valid = 0
         /\ RecoverCorruptedInodes(disk') = disk']_vars

\* An open has returned after clearing the bit of an in-flight inode.
C26_RecoveredSeen ==
    /\ up
    /\ last.op = "open"
    /\ last.val > 0
    /\ \E i \in 1..(NInodes - 1) : ~disk.ibm[i] /\ GetInode(disk, i).is_valid = 0

\* Enough writes of MaxBuf bytes to fill every block a file can map.
MaxWrites == (MaxFileBlocks * BLOCK_SIZE) \div MaxBuf + 1

SameBitmaps(d, e) == d.ibm = e.ibm /\ d.dbm = e.dbm

\* remove(path) on image e, and on the image after each of up to k further
\* writes of MaxBuf bytes through stream s, gives back the bitmaps of image d.
\* A write that fails leaves the stream where it was.
RECURSIVE ReleasedAfter(_, _, _, _, _, _)
ReleasedAfter(d, path, e, s, k, t) ==
    /\ \A r \in {Remove(e, path)} : r.ok /\ SameBitmaps(r.disk, d)
    /\ k > 0 => \A w \in {FileWrite(e, s, Buf(MaxBuf, 1), t)} :
                    ReleasedAfter(d, path, w.disk, w.stream, k - 1, t)

\* create_file(path), any number of writes through the returned stream,
\* remove(path) on d.
ReleaseLaw(d, path, t) ==
    LET p == ResolveParent(d, path)
        c == CreateFile(d, path, t)
    IN  (p.ok /\ FreeSlots(d, p.val) # {} /\ c.ok) =>
            ReleasedAfter(d, path, c.disk, Stream(c.val, 0), MaxWrites, t)

\* The name of path is not yet in its parent.
NewName(d, path) == ~FindInodeByPath(d, path).ok

\* C27: when the parent directory has a free slot in an allocated block,
\* create_file(P), any number of writes through the returned stream and
\* remove(P) leave the inode bitmap and the data bitmap as they were before
\* create_file.
C27_RemoveReleases ==
    up => \A path \in CreatePaths : ReleaseLaw(disk, path, now + 1)

\* A file named P exists, and create_file(P), remove(P) leave a bit set that
\* was clear.
C27_OlderFileRemovedSeen ==
    /\ up
    /\ last.op = "create_file"
    /\ last.ok
    /\ \E r \in {Remove(CreateFile(disk, last.path, now + 1).disk, last.path)} :
          /\ CreateFile(disk, last.path, now + 1).ok
          /\ r.ok
          /\ r.val = last.val
          /\ ~SameBitmaps(r.disk, disk)

\* A step of a session that made no call that writes: the clock stands still.
ReadOnlyStep == up /\ up' /\ now' = now /\ last' = last /\ streams' # streams

\* C28: open_file, stat, read_dir, find_inode_by_path, read and seek leave both
\* bitmaps, every inode record and every data block as they were, also where the
\* lookup goes through an absent direct slot or an absent indirect chain.
C28_ReadOnly ==
    [][/\ \A path \in AllPaths :
              /\ OpenFile(disk, path).disk = disk
              /\ Stat(disk, path).disk = disk
              /\ ReadDir(disk, path).disk = disk
              /\ FindInodeByPath(disk, path).disk = disk
       /\ \A h \in Slots : \A n \in 0..MaxBuf :
              streams[h].open => FileReadImage(disk, streams[h], n) = disk
       /\ ReadOnlyStep => disk' = disk]_vars

\* A read has delivered bytes of a block index past the direct slots of a file
\* that has no pointer block.
C28_AbsentChainReadSeen ==
    \E h \in Slots :
        /\ streams[h].open
        /\ GetInode(disk, streams[h].inode_id).indirect_blocks = 0
        /\ streams[h].position > NDIRECT * BLOCK_SIZE
        /\ streams[h].position < MaxFileBlocks * BLOCK_SIZE
        /\ streams[h].position <= GetInode(disk, streams[h].inode_id).size

\* C29: whenever a write call has returned, with a byte count or with an error,
\* the persisted is_valid of the inode is 1: between calls no allocated file
\* inode is in flight, so a later open deallocates no file whose writes had all
\* returned.
C29_WriteReturnsValid ==
    up => \A i \in AllocatedInodes(disk) :
              GetInode(disk, i).inode_type = 0 => GetInode(disk, i).is_valid = 1

\* A write has returned FileTooLarge and left the file in flight: the recovery
\* pass of the next open would clear its inode bit.
C29_FailedWriteSeen ==
    /\ up
    /\ last.op = "write"
    /\ ~last.ok
    /\ last.err = "FileTooLarge"
    /\ \E h \in Slots :
          /\ streams[h].open
          /\ disk.ibm[streams[h].inode_id]
          /\ GetInode(disk, streams[h].inode_id).is_valid = 0
          /\ ~RecoverCorruptedInodes(disk).ibm[streams[h].inode_id]

\* Every slot of every directory of d reads in e as it reads in d.
SameEntries(d, e) ==
    \A dir \in Directories(d) : \A c \in DirSlots : SlotEntry(e, dir, c) = SlotEntry(d, dir, c)

\* r is what a create returned on image d.
FailureLeavesImage(d, r) ==
    ~r.ok => SameBitmaps(r.disk, d) /\ SameEntries(d, r.disk)

\* C30: a create_file or create_dir call that returns an error leaves the inode
\* bitmap, the data bitmap and the entries of every directory as they were
\* before the call.
C30_FailedCreate ==
    up => \A path \in CreatePaths :
              /\ FailureLeavesImage(disk, CreateFile(disk, path, now + 1))
              /\ FailureLeavesImage(disk, CreateDir(disk, path, now + 1))

\* A create has returned an error after it had taken an inode.
C30_InodeLeakedSeen ==
    /\ up
    /\ last.op \in {"create_file", "create_dir"}
    /\ ~last.ok
    /\ last.err \notin {"NotFound"}
    /\ \E i \in AllocatedInodes(disk) :
          \A dir \in Directories(disk) : \A c \in DirSlots :
              SlotEntry(disk, dir, c) = <<>> \/ SlotEntry(disk, dir, c)[1].inode_id # i
                 \/ SlotEntry(disk, dir, c)[1].is_active # 1

\* Block id lies wholly inside image d: its last cell is before the end of the
\* data region as the image has it.
InsideImage(d, id) == (id + 1) * BLOCK_SIZE <= d.len

\* a is what an allocator returned on image d.
AllocatesInside(d, a) ==
    /\ a.ok => InsideImage(d, a.id)
    /\ (\A b \in 0..(TotalBlocks - 1) : InsideImage(d, b) => d.dbm[b]) => ~a.ok

\* C31: every block ID a data-block allocator returns addresses a block lying
\* wholly inside the image, and when no such block is free the allocation fails.
C31_AllocatedInsideImage ==
    /\ AllocatesInside(disk, AllocateDataBlock(disk))
    /\ AllocatesInside(disk, FileAllocateDataBlock(disk))

\* A call has taken a block whose cells lie past the end of the image.
C31_BlockPastEndSeen ==
    \E b \in 0..(TotalBlocks - 1) : disk.dbm[b] /\ ~InsideImage(disk, b)

\* The positions a first write is made at after a seek past the end: inside the
\* first block and in the block after it.
HolePositions == 1..(BLOCK_SIZE + 1)

\* create_file(path) on d, a seek to pos and one write of one byte through the
\* returned stream: every offset before pos, which no write to the file has
\* covered, reads as 0.
HoleLaw(d, path, pos, t) ==
    \A c \in {CreateFile(d, path, t)} :
        c.ok =>
            \A w \in {FileWrite(c.disk, Stream(c.val, pos), Buf(1, 1), t)} :
                w.ok =>
                    \A q \in 0..(pos - 1) :
                        \A r \in {FileRead(w.disk, Stream(c.val, q), 1)} :
                            r.ok => r.bytes = <<0>>

\* C32: bytes never written read as zero: an offset in [0, size) of a file that
\* no write to the file has covered reads as 0, whatever an earlier, since
\* removed file stored in the block the file now uses.
C32_UnwrittenReadsZero ==
    up => \A path \in FilePaths : \A pos \in HolePositions :
              HoleLaw(disk, path, pos, now + 1)

\* A file that was written has been removed: its block is free again and still
\* holds the bytes.
C32_StaleBlockSeen ==
    /\ up
    /\ last.op = "remove"
    /\ last.ok
    /\ GetInode(disk, last.val).inode_type = 0
    /\ \A i \in AllocatedInodes(disk) : i = 0
    /\ \E b \in 0..(DataBlocks - 1) :
          /\ ~disk.dbm[b]
          /\ \E off \in 0..(BLOCK_SIZE - 1) : disk.data[b][off] # 0
    /\ ~HoleLaw(disk, <<1>>, 1, now + 1)

\* What read_dir lists of directory dir of image d, once the path is resolved.
Listing(d, dir) == ListScan(d, GetInode(d, dir), 0, 0, <<>>)

\* c is what create_dir returned: the new directory lists "." and ".." only.
ListsDots(c) ==
    c.ok => /\ Listing(c.disk, c.val).ok
            /\ Listing(c.disk, c.val).val \in {<<DOT, DOTDOT>>, <<DOTDOT, DOT>>}

\* C33: a directory just created by create_dir lists exactly the two entries
\* "." and "..", nothing else and no duplicates, whatever was created and
\* removed earlier and whichever data block the new directory is given.
C33_NewDirLists ==
    up => \A path \in CreatePaths : ListsDots(CreateDir(disk, path, now + 1))

\* create_dir has returned a directory whose listing is longer than two names.
C33_StaleEntriesListedSeen ==
    /\ up
    /\ last.op = "create_dir"
    /\ last.ok
    /\ last.val # 0
    /\ disk.ibm[0]
    /\ disk.dbm[0]
    /\ Listing(disk, last.val).ok
    /\ Len(Listing(disk, last.val).val) > 2

====
